---- MODULE Spec2Model ----
(***************************************************************************)
(* A model of tensorflow_transform/beam/analysis_graph_builder.py: the     *)
(* path hasher, the readiness and translation visitors, the phase planner  *)
(* `build` and the cache optimizer.                                        *)
(*                                                                         *)
(* Operation nodes and value nodes are structural terms:                   *)
(*   OperationNode = [operation_def |-> OperationDef, inputs |-> Seq(VN)]  *)
(*   ValueNode     = [parent_operation |-> OperationNode, value_index]     *)
(* Python's None is the record None; strings built with str.format are     *)
(* sequences of string tokens (concatenation of tokens is concatenation of *)
(* the strings).  A SHA-1 digest is the record [sha1 |-> preimage]: equal  *)
(* digests iff equal byte streams (collision resistance).                  *)
(***************************************************************************)
EXTENDS Integers, Sequences, FiniteSets, TLC

VARIABLES
    pc,                    \* position of the current build() call
    run,                   \* 1 for the first build() call, 2 for a second one
    graph,                 \* the tf.Graph: pending TENSOR_REPLACEMENTS and tensor dependencies
    arg_dataset_keys,      \* build's dataset_keys argument, in the caller's iteration order
    arg_output_signature,  \* build's output_signature argument, in the caller's order
    cache_dict,            \* build's cache_dict argument
    tensor_sinks,          \* local of build (line 493)
    phase,                 \* local of build (line 495)
    tensor_bindings,       \* local of build (line 496)
    sink_tensors_ready,    \* local of build (line 497)
    graph_analyzer,        \* local of build (line 504/509): the oracle of this iteration
    sink_index,            \* position of the for loop of line 535
    translate_visitor,     \* fields of the _TranslateVisitor (lines 127-129)
    translate_cache,       \* memo of translate_traverser (line 501)
    signature_heap,        \* the OrderedDicts used as output signatures, by reference
    analyzers_input_signature, \* local of build (line 503)
    saved_model_future,    \* local of build (line 565)
    optimize_visitor,      \* fields of the _OptimizeVisitor (lines 221-224)
    optimize_cache,        \* memo of optimize_traverser (line 428)
    result,                \* what build returned, per run
    error,                 \* the exception that ended build, or None
    resolved_phase,        \* history: the phase in which each sink was marked resolved
    ANALYSIS_GRAPH,        \* module global _ANALYSIS_GRAPH (line 35)
    hasher,                \* a call of the path hasher on its own: [x, parents, result]
    call                   \* a visit called on its own: [fn, visitor, operation_def,
                           \* input_values, result], or [fn, graph_analyzer,
                           \* operation_def, ready_values, result]

vars == <<pc, run, graph, arg_dataset_keys, arg_output_signature, cache_dict,
          tensor_sinks, phase, tensor_bindings, sink_tensors_ready, graph_analyzer,
          sink_index, translate_visitor, translate_cache, signature_heap,
          analyzers_input_signature, saved_model_future, optimize_visitor,
          optimize_cache, result, error, resolved_phase, ANALYSIS_GRAPH, hasher, call>>

(***************************************************************************)
(* Bounds of the model.                                                    *)
(***************************************************************************)
MaxSinks == 2

MaxRerunSinks == 2
MaxWritten == 2

MaxParents == 2
MaxInputs == 2

(***************************************************************************)
(* Python values.                                                          *)
(***************************************************************************)
None == [isNone |-> TRUE]

IsNone(v) == v = None

\* str() of the small naturals the model uses.
NatStr(n) == <<"0", "1", "2", "3", "4", "5", "6">>[n + 1]

BoolStr(b) == IF b THEN "True" ELSE "False"

\* The elements of a sequence, as a set.
Range(s) == {s[i] : i \in DOMAIN s}

RECURSIVE SeqFromSet(_)
SeqFromSet(S) ==
    IF S = {} THEN <<>>
    ELSE LET m == CHOOSE x \in S : \A y \in S : x <= y
         IN <<m>> \o SeqFromSet(S \ {m})

\* hashlib.sha1().digest() yields 20 bytes.
DigestSize == 20

Sha1(updates) == [sha1 |-> updates]

IsDigest(h) == "sha1" \in DOMAIN h

DigestLen(h) == IF IsDigest(h) THEN DigestSize ELSE 0

Bytes(tokens) == [bytes |-> tokens]

(***************************************************************************)
(* collections.OrderedDict: a sequence of [key, value] entries.            *)
(***************************************************************************)
DictKeys(d) == {d[i].key : i \in DOMAIN d}

DictHas(d, k) == \E i \in DOMAIN d : d[i].key = k

DictGet(d, k) == d[CHOOSE i \in DOMAIN d : d[i].key = k].value

DictValues(d) == [i \in DOMAIN d |-> d[i].value]

\* d[k] = v: an existing key keeps its position.
DictSet(d, k, v) ==
    IF DictHas(d, k)
    THEN [i \in DOMAIN d |-> IF d[i].key = k THEN [key |-> k, value |-> v] ELSE d[i]]
    ELSE Append(d, [key |-> k, value |-> v])

RECURSIVE DictUpdate(_, _)
DictUpdate(d, other) ==
    IF other = <<>> THEN d
    ELSE DictUpdate(DictSet(d, Head(other).key, Head(other).value), Tail(other))

(***************************************************************************)
(* Results of a call: a returned value or a raised exception.              *)
(***************************************************************************)
Return(v) == [tag |-> "return", value |-> v]

Raise(exc) == [tag |-> "raise", exc |-> exc]

(***************************************************************************)
(* The path hasher (lines 38-90).                                          *)
(* An argument x is None, a tf.Operation [kind, attr], a tf.Tensor         *)
(* [kind, value_index] or a string [kind, value].  parents is None (the    *)
(* default) or [list |-> <<hash, ...>>].                                   *)
(***************************************************************************)
TfOperation(attr) == [kind |-> "Operation", attr |-> attr]

TfTensorArg(value_index) == [kind |-> "Tensor", value_index |-> value_index]

StrArg(tokens) == [kind |-> "str", value |-> tokens]

ParentList(list) == [list |-> list]

\* op_attr maps an attribute key to [value, func]: func says the AttrValue has
\* a `func` field (or a func in its list).
serialize_op_attr(op_attr) ==
    LET sorted_attributes == SeqFromSet(DOMAIN op_attr)
    IN IF \E k \in DOMAIN op_attr : op_attr[k].func
       THEN Raise("ValueError")
       ELSE Return([i \in 1..(2 * Len(sorted_attributes)) |->
                      IF i % 2 = 1
                      THEN Bytes(<<"attr", NatStr(sorted_attributes[(i + 1) \div 2])>>)
                      ELSE Bytes(op_attr[sorted_attributes[i \div 2]].value)])

\* lines 69-90: x is not None.
describe_path_of_node(x, parents) ==
    LET ps == IF IsNone(parents) THEN <<>> ELSE parents.list
    IN IF \E i \in DOMAIN ps : IsNone(ps[i])
       THEN Return(None)
       ELSE LET values ==
                   IF x.kind = "Operation" THEN serialize_op_attr(x.attr)
                   ELSE IF x.kind = "Tensor"
                   THEN Return(<<Bytes(<<NatStr(x.value_index)>>)>>)
                   ELSE Return(<<Bytes(x.value)>>)
            IN IF values.tag = "raise" THEN values
               ELSE Return(Sha1(values.value \o ps))

\* A plausible slip: None is returned for x = None whatever the parents are.
describe_path_unasserted(x, parents) ==
    IF IsNone(x) THEN Return(None) ELSE describe_path_of_node(x, parents)

\* lines 51-90
describe_path_as_analyzer_cache_hash(x, parents) ==
    IF IsNone(x)
    THEN IF IsNone(parents) THEN Return(None) ELSE Raise("AssertionError")
    ELSE describe_path_of_node(x, parents)

(***************************************************************************)
(* Tensors of the tf.Graph: [base |-> tokens, index |-> value index]; the  *)
(* tensor's name is base ++ ":" ++ str(index).                             *)
(***************************************************************************)
Tensor(base, index) == [base |-> base, index |-> index]

TensorFullName(tensor) == tensor.base \o <<":", NatStr(tensor.index)>>

EndsWith(s, suffix) ==
    /\ Len(s) >= Len(suffix)
    /\ SubSeq(s, Len(s) - Len(suffix) + 1, Len(s)) = suffix

\* lines 93-98
tensor_name(tensor) ==
    LET name == TensorFullName(tensor)
    IN IF EndsWith(name, <<":", "0">>) THEN SubSeq(name, 1, Len(name) - 2) ELSE name

(***************************************************************************)
(* The operation DAG (nodes.py): operation definitions, operation nodes    *)
(* and value nodes.                                                        *)
(***************************************************************************)
\* An OperationDef: its class, its label, the contract the optimizer reads
\* (num_outputs, is_partitionable, cache_coder) and its other namedtuple
\* fields.
OperationDef(cls, label, num_outputs, is_partitionable, cache_coder, fields) ==
    [cls |-> cls, label |-> label, num_outputs |-> num_outputs,
     is_partitionable |-> is_partitionable, cache_coder |-> cache_coder,
     fields |-> fields]

\* operation_def._replace(label=label)
ReplaceLabel(operation_def, label) == [operation_def EXCEPT !.label = label]

OperationNode(operation_def, inputs) ==
    [operation_def |-> operation_def, inputs |-> inputs]

ValueNode(parent_operation, value_index) ==
    [parent_operation |-> parent_operation, value_index |-> value_index]

\* OperationNode(...).outputs
Outputs(operation_node) ==
    [i \in 1..operation_node.operation_def.num_outputs |-> ValueNode(operation_node, i - 1)]

\* nodes.apply_operation(cls, *inputs, **fields): the single output.
ApplyOperation(operation_def, inputs) == Outputs(OperationNode(operation_def, inputs))[1]

\* '{}[{}]'.format(a, b)
Bracket(a, b) == a \o <<"[">> \o b \o <<"]">>

Coder == [coder |-> "cache_coder"]

\* analyzer_nodes.TensorSource
TensorSource(tensors, label) ==
    OperationDef("TensorSource", label, 1, FALSE, None, [tensors |-> tensors])

\* analyzer_nodes: an analyzer step, known by its contract only.
AnalyzerDef(cls, label, num_outputs, is_partitionable, cache_coder) ==
    OperationDef(cls, label, num_outputs, is_partitionable, cache_coder,
                 [param |-> <<cls>>])

\* analyzer_nodes.DecodeCache(dataset_key, cache_key, label, coder)
DecodeCache(dataset_key, cache_key, label, coder) ==
    OperationDef("DecodeCache", label, 1, FALSE, None,
                 [dataset_key |-> dataset_key, cache_key |-> cache_key, coder |-> coder])

\* analyzer_nodes.EncodeCache(coder, label)
EncodeCache(coder, label) ==
    OperationDef("EncodeCache", label, 1, TRUE, None, [coder |-> coder])

\* beam_nodes.CreateSavedModel; output_signature is a reference into signature_heap.
CreateSavedModel(table_initializers, output_signature, label) ==
    OperationDef("CreateSavedModel", label, 1, FALSE, None,
                 [table_initializers |-> table_initializers,
                  output_signature |-> output_signature])

\* beam_nodes.ApplySavedModel; dataset_key is <<>> for None, <<key>> otherwise.
ApplySavedModel(dataset_key, phase_, label) ==
    OperationDef("ApplySavedModel", label, 1, TRUE, None,
                 [dataset_key |-> dataset_key, phase |-> phase_])

\* beam_nodes.ExtractFromDict
ExtractFromDict(keys, label) ==
    OperationDef("ExtractFromDict", label, 1, TRUE, None, [keys |-> keys])

\* beam_nodes.CreateTensorBinding
CreateTensorBinding(tensor, is_asset_filepath, label) ==
    OperationDef("CreateTensorBinding", label, 1, FALSE, None,
                 [tensor |-> tensor, is_asset_filepath |-> is_asset_filepath])

\* beam_nodes.Flatten
Flatten(label) == OperationDef("Flatten", label, 1, TRUE, None, [flatten |-> TRUE])

(***************************************************************************)
(* The tf.Graph and the analyzers registered in it.                        *)
(*   x:0        the single input of input_signature                        *)
(*   sink<i>:0  the placeholder an analyzer output is bound to             *)
(*   dep<j>:1   a tensor computed from x and sink<j>                       *)
(***************************************************************************)
InputTensor == Tensor(<<"x">>, 0)

SinkTensor(i) == Tensor(<<"sink", NatStr(i)>>, 0)

DepTensor(j) == Tensor(<<"dep", NatStr(j)>>, 1)

\* The sinks a tensor is computed from, by walking the tf.Graph.
TensorSinkDeps(tensor) ==
    IF tensor.base[1] = "dep" THEN {Tensor(<<"sink", tensor.base[2]>>, 0)}
    ELSE IF tensor.base[1] = "sink" THEN {tensor}
    ELSE {}

\* The tensors an analyzer of sink i reads: x, and one tensor per sink in deps.
SourceTensors(deps) == <<InputTensor>> \o [k \in 1..Len(SeqFromSet(deps)) |->
                                             DepTensor(SeqFromSet(deps)[k])]

Shapes == {"combine", "plain", "chain", "merge2", "mixed2", "shared"}

\* The expression (a value node of the user-level graph) of the analyzer bound
\* to sink i: a chain of analyzer steps over one TensorSource.
\*   combine  Merge(Accumulate(source)), Accumulate partitionable and cacheable
\*   plain    Combine(source), not partitionable
\*   chain    Merge(Accumulate2(Accumulate(source))), both cacheable
\*   merge2   Merge2(AccumulateA(source), AccumulateB(source))
\*   mixed2   Merge2(Accumulate(source), Combine(source))
\*   shared   Combine(source, shared), shared being one TensorSource of x read
\*            by the analyzers of all sinks
SinkValueNode(i, shape, deps) ==
    LET id == <<NatStr(i)>>
        source == ApplyOperation(
            TensorSource(SourceTensors(deps), Bracket(<<"TensorSource">>, id)), <<>>)
        shared == ApplyOperation(
            TensorSource(<<InputTensor>>, Bracket(<<"TensorSource">>, <<"shared">>)), <<>>)
        acc(name, input) == ApplyOperation(
            AnalyzerDef(name, Bracket(<<name>>, id), 1, TRUE, Coder), <<input>>)
        merge(name, inputs) == ApplyOperation(
            AnalyzerDef(name, Bracket(<<name>>, id), 1, FALSE, None), inputs)
    IN CASE shape = "combine" -> merge("Merge", <<acc("Accumulate", source)>>)
         [] shape = "plain"   -> merge("Combine", <<source>>)
         [] shape = "chain"   ->
                merge("Merge", <<acc("Accumulate2", acc("Accumulate", source))>>)
         [] shape = "merge2"  ->
                merge("Merge2", <<acc("AccumulateA", source), acc("AccumulateB", source)>>)
         [] shape = "mixed2"  ->
                merge("Merge2", <<acc("Accumulate", source), merge("Combine", <<source>>)>>)
         [] shape = "shared"  -> merge("Combine", <<source, shared>>)

TensorSink(tensor, value_node, is_asset_filepath) ==
    [tensor |-> tensor, value_node |-> value_node, is_asset_filepath |-> is_asset_filepath]

\* Whether the relation deps (sink -> sinks it reads) over 1..n has no cycle.
RECURSIVE Reaches(_, _, _, _)
Reaches(deps, from, to, fuel) ==
    /\ fuel > 0
    /\ \/ to \in deps[from]
       \/ \E m \in deps[from] : Reaches(deps, m, to, fuel - 1)

Acyclic(deps, n) == \A i \in 1..n : ~Reaches(deps, i, i, n)

\* The sinks sink i depends on, through any number of analyzers.
TransitiveDeps(deps, i, n) == {j \in 1..n : Reaches(deps, i, j, n)}

\* The graphs build is run on: n analyzers of one shape, with any acyclic
\* dependency relation between them.
Graphs(max_sinks) ==
    UNION {
        {[n |-> n, deps |-> deps, shape |-> shape,
          collection |-> [i \in 1..n |->
              TensorSink(SinkTensor(i), SinkValueNode(i, shape, deps[i]), FALSE)]] :
            deps \in {d \in [1..n -> SUBSET (1..n)] : Acyclic(d, n)},
            shape \in Shapes} :
        n \in 0..max_sinks}

(***************************************************************************)
(* graph_tools.InitializableGraphAnalyzer, the readiness oracle.  It is    *)
(* built from the resolved/unresolved mapping as it is when the oracle is  *)
(* constructed; a tensor is ready to run iff every sink it is computed     *)
(* from is resolved in that mapping.                                       *)
(***************************************************************************)
InitializableGraphAnalyzer(replaced_tensors_ready) ==
    [replaced_tensors_ready |-> replaced_tensors_ready]

ready_to_run(analyzer, tensor) ==
    \A s \in TensorSinkDeps(tensor) : analyzer.replaced_tensors_ready[s]

\* The hash of the tf.Graph path from a tensor to its sources: an input is
\* hashed by its name, a sink placeholder has no path (None), any other tensor
\* is hashed by its value index over the hash of its operation, which is
\* hashed by its attributes over the hashes of its inputs.
get_unique_path(analyzer, tensor) ==
    IF tensor = InputTensor
    THEN describe_path_as_analyzer_cache_hash(StrArg(<<"x">>), None).value
    ELSE IF tensor.base[1] = "sink"
    THEN describe_path_as_analyzer_cache_hash(None, None).value
    ELSE LET input_paths ==
                 <<describe_path_as_analyzer_cache_hash(StrArg(<<"x">>), None).value,
                   describe_path_as_analyzer_cache_hash(None, None).value>>
             op_path == describe_path_as_analyzer_cache_hash(
                 TfOperation((1 :> [value |-> <<"DT_FLOAT">>, func |-> FALSE])),
                 ParentList(input_paths)).value
         IN describe_path_as_analyzer_cache_hash(
                TfTensorArg(tensor.index), ParentList(<<op_path>>)).value

(***************************************************************************)
(* nodes.Traverser: visits the inputs of an operation node in order, then  *)
(* the node, once per node.  A memo maps operation nodes to the tuple of   *)
(* values of their outputs.                                                *)
(***************************************************************************)
EmptyMap == [x \in {} |-> x]

\* The memoized value of a value node.
Cached(cache, value_node) ==
    cache[value_node.parent_operation][value_node.value_index + 1]

InputValues(cache, operation_node) ==
    [i \in DOMAIN operation_node.inputs |-> Cached(cache, operation_node.inputs[i])]

(***************************************************************************)
(* _ReadyVisitor (lines 101-116).                                          *)
(***************************************************************************)
\* A plausible slip: one ready source tensor is enough.
ReadyVisitAny(analyzer, operation_def, input_values) ==
    LET is_ready ==
            IF operation_def.cls = "TensorSource"
            THEN \E t \in Range(operation_def.fields.tensors) : ready_to_run(analyzer, t)
            ELSE \A i \in DOMAIN input_values : input_values[i]
    IN [i \in 1..operation_def.num_outputs |-> is_ready]

\* A plausible slip: the readiness of the inputs is not looked at.
ReadyVisitIgnoresInputs(analyzer, operation_def, input_values) ==
    LET is_ready ==
            IF operation_def.cls = "TensorSource"
            THEN \A t \in Range(operation_def.fields.tensors) : ready_to_run(analyzer, t)
            ELSE TRUE
    IN [i \in 1..operation_def.num_outputs |-> is_ready]

\* lines 107-113
ReadyVisit(analyzer, operation_def, input_values) ==
    LET is_ready ==
            IF operation_def.cls = "TensorSource"
            THEN \A t \in Range(operation_def.fields.tensors) : ready_to_run(analyzer, t)
            ELSE \A i \in DOMAIN input_values : input_values[i]
    IN [i \in 1..operation_def.num_outputs |-> is_ready]

\* ready_traverser.visit_value_node(value_node); the traverser is new in every
\* iteration and the visitor reads nothing that changes within one, so its
\* memo is not kept.
RECURSIVE ReadyVisitValueNode(_, _)
ReadyVisitValueNode(analyzer, value_node) ==
    LET operation_node == value_node.parent_operation
        input_values == [i \in DOMAIN operation_node.inputs |->
                            ReadyVisitValueNode(analyzer, operation_node.inputs[i])]
    IN ReadyVisit(analyzer, operation_node.operation_def, input_values)[
           value_node.value_index + 1]

(***************************************************************************)
(* _TranslateVisitor (lines 119-147).  The visitor writes into the         *)
(* OrderedDict its intermediate_output_signature field refers to.          *)
(***************************************************************************)
IntermediateRef(k) == [intermediate |-> k]

FinalRef == [final |-> TRUE]

\* A plausible slip: the tensors are not added to the signature.
AddNothingToSignature(signature, tensors) == signature

\* lines 136-137
RECURSIVE AddToSignature(_, _)
AddToSignature(signature, tensors) ==
    IF tensors = <<>> THEN signature
    ELSE AddToSignature(DictSet(signature, tensor_name(Head(tensors)), Head(tensors)),
                        Tail(tensors))

\* visit(operation_def, input_values): [outputs, heap], heap being the
\* signature heap after the visit.
TranslateVisit(visitor, operation_def, input_values, heap) ==
    IF operation_def.cls = "TensorSource"
    THEN LET tensors == operation_def.fields.tensors
             ref == visitor.intermediate_output_signature
             keys == [i \in DOMAIN tensors |-> tensor_name(tensors[i])]
             output == ApplyOperation(ExtractFromDict(keys, operation_def.label),
                                      <<visitor.extracted_values_dict>>)
         IN [outputs |-> <<output>>,
             heap |-> [heap EXCEPT ![ref] = AddToSignature(heap[ref], tensors)]]
    ELSE [outputs |-> Outputs(OperationNode(operation_def, input_values)),
          heap |-> heap]

\* translate_traverser: st is [cache, heap]; the result is st after the
\* operation node (and what it reads) has been visited.
RECURSIVE TranslateMaybeVisit(_, _, _)
RECURSIVE TranslateInputs(_, _, _)
TranslateMaybeVisit(visitor, operation_node, st) ==
    IF operation_node \in DOMAIN st.cache THEN st
    ELSE LET st1 == TranslateInputs(visitor, operation_node.inputs, st)
             r == TranslateVisit(visitor, operation_node.operation_def,
                                 InputValues(st1.cache, operation_node), st1.heap)
         IN [cache |-> (operation_node :> r.outputs) @@ st1.cache, heap |-> r.heap]

TranslateInputs(visitor, inputs, st) ==
    IF inputs = <<>> THEN st
    ELSE TranslateInputs(visitor, Tail(inputs),
                         TranslateMaybeVisit(visitor, Head(inputs).parent_operation, st))

(***************************************************************************)
(* _OptimizationView (lines 150-190).  fine_grained_view is None or        *)
(* [items |-> OrderedDict from dataset key to value node];                 *)
(* prefer_fine_grained_view holds the truth value of what the code stores. *)
(***************************************************************************)
OrderedDictOf(items) == [items |-> items]

Truthy(dict_or_none) == ~IsNone(dict_or_none) /\ dict_or_none.items # <<>>

\* _OptimizationView(...): the constructor raises on a preference without a
\* fine grained view.
OptimizationView(prefer_fine_grained_view, flattened_view, fine_grained_view, hashed_path) ==
    IF prefer_fine_grained_view /\ ~Truthy(fine_grained_view)
    THEN Raise("ValueError: Cannot prefer fine_grained_view when one is not provided")
    ELSE Return([prefer_fine_grained_view |-> prefer_fine_grained_view,
                 flattened_view |-> flattened_view,
                 fine_grained_view |-> fine_grained_view,
                 hashed_path |-> hashed_path])

(***************************************************************************)
(* _OptimizeVisitor (lines 193-419).                                       *)
(***************************************************************************)
\* The lexicographic order of the dataset keys the model uses.
DatasetKeyOrder == <<"eval", "train">>

DatasetKeyRank(key) == CHOOSE i \in DOMAIN DatasetKeyOrder : DatasetKeyOrder[i] = key

\* sorted(dataset_keys)
SortedDatasetKeys(keys) ==
    LET ranks == SeqFromSet({DatasetKeyRank(keys[i]) : i \in DOMAIN keys})
        count(r) == Cardinality({i \in DOMAIN keys : DatasetKeyRank(keys[i]) = r})
        RECURSIVE Repeat(_, _)
        Repeat(x, n) == IF n = 0 THEN <<>> ELSE <<x>> \o Repeat(x, n - 1)
        RECURSIVE Expand(_)
        Expand(rs) == IF rs = <<>> THEN <<>>
                      ELSE Repeat(DatasetKeyOrder[Head(rs)], count(Head(rs))) \o Expand(Tail(rs))
    IN Expand(ranks)

\* A plausible slip: the keys are kept in the caller's iteration order.
UnsortedDatasetKeys(keys) == keys

\* line 221
VisitorDatasetKeys(keys) == SortedDatasetKeys(keys)

\* __init__ (lines 205-224); dataset_keys is build's argument or {}.
OptimizeVisitor(dataset_keys, cache_dict_, tensor_keys_to_paths, cache_output_nodes) ==
    [dataset_keys |-> VisitorDatasetKeys(dataset_keys),
     cache_dict |-> cache_dict_,
     tensor_keys_to_paths |-> tensor_keys_to_paths,
     cache_output_nodes |-> cache_output_nodes]

\* A plausible slip: the number of outputs is checked for cacheable
\* operations only.
validate_cacheable_only(operation_def) ==
    IF ~IsNone(operation_def.cache_coder) /\ ~operation_def.is_partitionable
    THEN Raise("ValueError: Non partitionable OperationDefs cannot be cacheable")
    ELSE IF ~IsNone(operation_def.cache_coder) /\ operation_def.num_outputs # 1
    THEN Raise("ValueError: Cacheable OperationDefs must have exactly 1 output")
    ELSE Return(None)

\* lines 226-232
validate_operation_def(operation_def) ==
    IF ~IsNone(operation_def.cache_coder) /\ ~operation_def.is_partitionable
    THEN Raise("ValueError: Non partitionable OperationDefs cannot be cacheable")
    ELSE IF (operation_def.is_partitionable \/ ~IsNone(operation_def.cache_coder))
            /\ operation_def.num_outputs # 1
    THEN Raise("ValueError: Cacheable OperationDefs must have exactly 1 output")
    ELSE Return(None)

\* str((field, operation_def.get_field_str(field))) for every namedtuple field.
FieldBytes(operation_def) ==
    LET label == Bytes(<<"label">> \o operation_def.label)
    IN CASE operation_def.cls = "ApplySavedModel" ->
                <<Bytes(<<"dataset_key">> \o operation_def.fields.dataset_key),
                  Bytes(<<"phase", NatStr(operation_def.fields.phase)>>), label>>
         [] operation_def.cls = "Flatten" -> <<label>>
         [] operation_def.cls = "EncodeCache" -> <<Bytes(<<"coder">>), label>>
         [] OTHER -> <<Bytes(<<"param">> \o operation_def.fields.param), label>>

\* str((attr, getattr(operation_def, attr))) for the public non-callable
\* attributes that are not fields, sorted by name.
AttrBytes(operation_def) ==
    <<Bytes(<<"cache_coder",
              IF IsNone(operation_def.cache_coder) THEN "None" ELSE "coder">>),
      Bytes(<<"is_partitionable", BoolStr(operation_def.is_partitionable)>>),
      Bytes(<<"num_outputs", NatStr(operation_def.num_outputs)>>)>>

\* A plausible slip: an unknown path is skipped instead of ending the hash.
make_next_hashed_path_skipping_none(visitor, parent_hashed_paths, operation_def) ==
    LET paths_to_hash ==
            parent_hashed_paths \o <<Bytes(<<operation_def.cls>>)>> \o
            (IF operation_def.cls = "ExtractFromDict"
             THEN [i \in DOMAIN operation_def.fields.keys |->
                      DictGet(visitor.tensor_keys_to_paths, operation_def.fields.keys[i])]
             ELSE AttrBytes(operation_def) \o FieldBytes(operation_def))
    IN Sha1(SelectSeq(paths_to_hash, LAMBDA path : ~IsNone(path)))

\* lines 234-260
make_next_hashed_path(visitor, parent_hashed_paths, operation_def) ==
    LET paths_to_hash ==
            parent_hashed_paths \o <<Bytes(<<operation_def.cls>>)>> \o
            (IF operation_def.cls = "ExtractFromDict"
             THEN [i \in DOMAIN operation_def.fields.keys |->
                      DictGet(visitor.tensor_keys_to_paths, operation_def.fields.keys[i])]
             ELSE AttrBytes(operation_def) \o FieldBytes(operation_def))
    IN IF \E i \in DOMAIN paths_to_hash : IsNone(paths_to_hash[i])
       THEN None
       ELSE Sha1(paths_to_hash)

\* analyzer_cache.make_cache_entry_key over label + b'-' + hashed path: the
\* key determines both.
make_cache_entry_key(label, hashed_path) ==
    [cache_entry_key |-> <<Bytes(label), Bytes(<<"-">>), hashed_path>>]

CacheOutputKey(dataset_key, cache_entry_key) ==
    [dataset_key |-> dataset_key, cache_entry_key |-> cache_entry_key]

\* A plausible slip: any entry of the partition counts as a hit.
CacheHitAnyEntry(cache_dict_, dataset_key, cache_entry_key) ==
    \E entry \in cache_dict_.entries : entry.dataset_key = dataset_key

\* self._cache_dict.get(dataset_key, {}).get(cache_entry_key) is not None
CacheHit(cache_dict_, dataset_key, cache_entry_key) ==
    CacheOutputKey(dataset_key, cache_entry_key) \in cache_dict_.entries

\* A plausible slip: the loops stop one key short.
IterDatasetKeysButLast(visitor) ==
    SubSeq(visitor.dataset_keys, 1, Len(visitor.dataset_keys) - 1)

\* The keys the per-partition loops run over (lines 361 and 397).
IterDatasetKeys(visitor) == visitor.dataset_keys

\* A plausible slip: the test of the cache coder inverted.
EmitsEncodeCacheInverted(operation_def) == IsNone(operation_def.cache_coder)

\* line 377: whether the per-partition result is encoded into the output cache.
EmitsEncodeCache(operation_def) == ~IsNone(operation_def.cache_coder)

\* lines 356-388, the body of the loop for the keys still to do.  acc is
\* [fine, outputs]: result_fine_grained_view and self.cache_output_nodes.
RECURSIVE ApplyOnDatasetKeys(_, _, _, _, _, _)
ApplyOnDatasetKeys(visitor, operation_def, fine_grained_view, cache_entry_key, keys, acc) ==
    IF keys = <<>> THEN Return(acc)
    ELSE LET dataset_key == Head(keys)
         IN IF /\ ~IsNone(operation_def.cache_coder)
               /\ CacheHit(visitor.cache_dict, dataset_key, cache_entry_key)
            THEN LET op_output == ApplyOperation(
                         DecodeCache(dataset_key, cache_entry_key, operation_def.label,
                                     operation_def.cache_coder), <<>>)
                 IN ApplyOnDatasetKeys(visitor, operation_def, fine_grained_view,
                        cache_entry_key, Tail(keys),
                        [acc EXCEPT !.fine = DictSet(@, dataset_key, op_output)])
            ELSE IF ~DictHas(fine_grained_view.items, dataset_key)
            THEN Raise("KeyError")
            ELSE LET value_node == DictGet(fine_grained_view.items, dataset_key)
                     op_output == ApplyOperation(
                         ReplaceLabel(operation_def,
                                      Bracket(operation_def.label, <<dataset_key>>)),
                         <<value_node>>)
                     encoded_cache == ApplyOperation(
                         EncodeCache(operation_def.cache_coder,
                                     Bracket(Bracket(<<"EncodeCache">>, operation_def.label),
                                             <<dataset_key>>)),
                         <<op_output>>)
                 IN ApplyOnDatasetKeys(visitor, operation_def, fine_grained_view,
                        cache_entry_key, Tail(keys),
                        [fine |-> DictSet(acc.fine, dataset_key, op_output),
                         outputs |->
                             IF EmitsEncodeCache(operation_def)
                             THEN DictSet(acc.outputs,
                                          CacheOutputKey(dataset_key, cache_entry_key),
                                          encoded_cache)
                             ELSE acc.outputs])

\* lines 340-388; returns [fine, outputs]; bytes + None raises TypeError.
apply_operation_on_fine_grained_view(visitor, operation_def, fine_grained_view, next_hashed_path) ==
    IF IsNone(next_hashed_path) THEN Raise("TypeError")
    ELSE LET r == ApplyOnDatasetKeys(
                 visitor, operation_def, fine_grained_view,
                 make_cache_entry_key(operation_def.label, next_hashed_path),
                 IterDatasetKeys(visitor),
                 [fine |-> <<>>, outputs |-> visitor.cache_output_nodes])
         IN IF r.tag = "raise" THEN r
            ELSE Return([fine |-> OrderedDictOf(r.value.fine), outputs |-> r.value.outputs])

\* A plausible slip: a cacheable operation prefers its fine grained view
\* whether or not the upstream view has one.
PreferWhenCacheable(operation_def, upstream_view) ==
    \/ upstream_view.prefer_fine_grained_view
    \/ ~IsNone(operation_def.cache_coder)

\* A plausible slip: the preference of the upstream view is not inherited.
PreferOnlyWhenCacheable(operation_def, upstream_view) ==
    Truthy(upstream_view.fine_grained_view) /\ ~IsNone(operation_def.cache_coder)

\* lines 315-318
PreferFineGrainedView(operation_def, upstream_view) ==
    \/ upstream_view.prefer_fine_grained_view
    \/ Truthy(upstream_view.fine_grained_view) /\ ~IsNone(operation_def.cache_coder)

\* The result of a visit: the views of the outputs and cache_output_nodes.
Visited(view, cache_output_nodes) ==
    IF view.tag = "raise" THEN view
    ELSE Return([views |-> <<view.value>>, cache_output_nodes |-> cache_output_nodes])

\* A plausible slip: of several upstream views the first is taken.
visit_partitionable_first_input(visitor, operation_def, upstream_views) ==
    IF Len(upstream_views) = 0 THEN Raise("ValueError: unpack")
    ELSE LET upstream_view == upstream_views[1]
             prefer_fine_grained_view == PreferFineGrainedView(operation_def, upstream_view)
             next_hashed_path == make_next_hashed_path(
                 visitor, <<upstream_view.hashed_path>>, operation_def)
             fine == IF Truthy(upstream_view.fine_grained_view)
                     THEN apply_operation_on_fine_grained_view(
                              visitor, operation_def, upstream_view.fine_grained_view,
                              next_hashed_path)
                     ELSE Return([fine |-> None, outputs |-> visitor.cache_output_nodes])
             flattened_views == Outputs(OperationNode(operation_def,
                                                      <<upstream_view.flattened_view>>))
         IN IF fine.tag = "raise" THEN fine
            ELSE Visited(OptimizationView(prefer_fine_grained_view, flattened_views[1],
                                          fine.value.fine, next_hashed_path),
                         fine.value.outputs)

\* lines 306-338
visit_partitionable_operation(visitor, operation_def, upstream_views) ==
    IF Len(upstream_views) # 1 THEN Raise("ValueError: unpack")
    ELSE LET upstream_view == upstream_views[1]
             prefer_fine_grained_view == PreferFineGrainedView(operation_def, upstream_view)
             next_hashed_path == make_next_hashed_path(
                 visitor, <<upstream_view.hashed_path>>, operation_def)
             fine == IF Truthy(upstream_view.fine_grained_view)
                     THEN apply_operation_on_fine_grained_view(
                              visitor, operation_def, upstream_view.fine_grained_view,
                              next_hashed_path)
                     ELSE Return([fine |-> None, outputs |-> visitor.cache_output_nodes])
             flattened_views == Outputs(OperationNode(operation_def,
                                                      <<upstream_view.flattened_view>>))
         IN IF fine.tag = "raise" THEN fine
            ELSE Visited(OptimizationView(prefer_fine_grained_view, flattened_views[1],
                                          fine.value.fine, next_hashed_path),
                         fine.value.outputs)

\* A plausible slip: the view of the phase-0 ApplySavedModel prefers its
\* fine grained view.
visit_apply_savedmodel_preferring(visitor, operation_def, upstream_views) ==
    IF Len(upstream_views) # 1 THEN Raise("ValueError: unpack")
    ELSE LET upstream_view == upstream_views[1]
             keys == IterDatasetKeys(visitor)
             relabeled(key) ==
                 [operation_def EXCEPT !.fields.dataset_key = <<key>>,
                                       !.label = Bracket(operation_def.label, <<key>>)]
             fine_grained_view == DictUpdate(<<>>,
                 [i \in DOMAIN keys |->
                     [key |-> keys[i],
                      value |-> ApplyOperation(relabeled(keys[i]),
                                               <<upstream_view.flattened_view>>)]])
             flattened_view == ApplyOperation(operation_def, <<upstream_view.flattened_view>>)
         IN IF Truthy(upstream_view.fine_grained_view)
            THEN Raise("ValueError: Was not expecting a fine_grained_view input for ApplySavedModel")
            ELSE Visited(OptimizationView(keys # <<>>, flattened_view,
                                          OrderedDictOf(fine_grained_view),
                                          Bytes(<<"APPLY_SAVEDMODEL">>)),
                         visitor.cache_output_nodes)

\* lines 390-412
visit_apply_savedmodel_operation(visitor, operation_def, upstream_views) ==
    IF Len(upstream_views) # 1 THEN Raise("ValueError: unpack")
    ELSE LET upstream_view == upstream_views[1]
             keys == IterDatasetKeys(visitor)
             relabeled(key) ==
                 [operation_def EXCEPT !.fields.dataset_key = <<key>>,
                                       !.label = Bracket(operation_def.label, <<key>>)]
             fine_grained_view == DictUpdate(<<>>,
                 [i \in DOMAIN keys |->
                     [key |-> keys[i],
                      value |-> ApplyOperation(relabeled(keys[i]),
                                               <<upstream_view.flattened_view>>)]])
             flattened_view == ApplyOperation(operation_def, <<upstream_view.flattened_view>>)
         IN IF Truthy(upstream_view.fine_grained_view)
            THEN Raise("ValueError: Was not expecting a fine_grained_view input for ApplySavedModel")
            ELSE Visited(OptimizationView(FALSE, flattened_view,
                                          OrderedDictOf(fine_grained_view),
                                          Bytes(<<"APPLY_SAVEDMODEL">>)),
                         visitor.cache_output_nodes)

RECURSIVE Concat(_)
Concat(seqs) == IF seqs = <<>> THEN <<>> ELSE Head(seqs) \o Concat(Tail(seqs))

\* A plausible slip: the view of the first input's partitions is passed on.
visit_other_keeps_partitions(visitor, operation_def, input_values) ==
    LET flatten == \E i \in DOMAIN input_values :
                       /\ Truthy(input_values[i].fine_grained_view)
                       /\ input_values[i].prefer_fine_grained_view
        disaggregated_input_values == Concat(
            [i \in DOMAIN input_values |->
                DictValues(input_values[i].fine_grained_view.items)])
        next_inputs ==
            IF flatten
            THEN Outputs(OperationNode(
                     Flatten(Bracket(<<"FlattenCache">>, operation_def.label)),
                     disaggregated_input_values))
            ELSE [i \in DOMAIN input_values |-> input_values[i].flattened_view]
        flattened_view == Outputs(OperationNode(operation_def, next_inputs))
        fine_grained_view == IF input_values = <<>> THEN None
                             ELSE input_values[1].fine_grained_view
    IN IF flatten /\ \E i \in DOMAIN input_values : IsNone(input_values[i].fine_grained_view)
       THEN Raise("AttributeError")
       ELSE Return([views |-> [i \in DOMAIN flattened_view |->
                                  [prefer_fine_grained_view |-> FALSE,
                                   flattened_view |-> flattened_view[i],
                                   fine_grained_view |-> fine_grained_view,
                                   hashed_path |-> None]],
                    cache_output_nodes |-> visitor.cache_output_nodes])

\* lines 277-304; None.values() raises AttributeError.  The assertion of line
\* 286 compares the lengths of the value nodes, which are all alike.
visit_other_operation(visitor, operation_def, input_values) ==
    LET flatten == \E i \in DOMAIN input_values :
                       /\ Truthy(input_values[i].fine_grained_view)
                       /\ input_values[i].prefer_fine_grained_view
        disaggregated_input_values == Concat(
            [i \in DOMAIN input_values |->
                DictValues(input_values[i].fine_grained_view.items)])
        next_inputs ==
            IF flatten
            THEN Outputs(OperationNode(
                     Flatten(Bracket(<<"FlattenCache">>, operation_def.label)),
                     disaggregated_input_values))
            ELSE [i \in DOMAIN input_values |-> input_values[i].flattened_view]
        flattened_view == Outputs(OperationNode(operation_def, next_inputs))
    IN IF flatten /\ \E i \in DOMAIN input_values : IsNone(input_values[i].fine_grained_view)
       THEN Raise("AttributeError")
       ELSE Return([views |-> [i \in DOMAIN flattened_view |->
                                  OptimizationView(FALSE, flattened_view[i], None, None).value],
                    cache_output_nodes |-> visitor.cache_output_nodes])

\* A plausible slip: the ApplySavedModel of every phase opens partitions.
OptimizeVisitAnyPhase(visitor, operation_def, input_values) ==
    IF validate_operation_def(operation_def).tag = "raise"
    THEN validate_operation_def(operation_def)
    ELSE IF operation_def.cls = "ApplySavedModel"
    THEN visit_apply_savedmodel_operation(visitor, operation_def, input_values)
    ELSE IF ~IsNone(visitor.cache_dict) /\ operation_def.is_partitionable
    THEN visit_partitionable_operation(visitor, operation_def, input_values)
    ELSE visit_other_operation(visitor, operation_def, input_values)

\* lines 262-304
OptimizeVisit(visitor, operation_def, input_values) ==
    IF validate_operation_def(operation_def).tag = "raise"
    THEN validate_operation_def(operation_def)
    ELSE IF operation_def.cls = "ApplySavedModel" /\ operation_def.fields.phase = 0
    THEN visit_apply_savedmodel_operation(visitor, operation_def, input_values)
    ELSE IF ~IsNone(visitor.cache_dict) /\ operation_def.is_partitionable
    THEN visit_partitionable_operation(visitor, operation_def, input_values)
    ELSE visit_other_operation(visitor, operation_def, input_values)

\* lines 414-419
validate_value(visitor, value) ==
    IF Truthy(value.fine_grained_view)
       /\ DictKeys(value.fine_grained_view.items) # Range(visitor.dataset_keys)
    THEN Raise("AssertionError")
    ELSE Return(None)

\* The operation node optimize_traverser visits next below operation_node,
\* which is not visited yet: the first unvisited input, recursively, or the
\* node itself.
RECURSIVE FirstUnvisited(_, _)
FirstUnvisited(cache, operation_node) ==
    LET pending == {i \in DOMAIN operation_node.inputs :
                       operation_node.inputs[i].parent_operation \notin DOMAIN cache}
    IN IF pending = {} THEN operation_node
       ELSE FirstUnvisited(cache,
                operation_node.inputs[CHOOSE i \in pending : \A j \in pending : i <= j]
                    .parent_operation)

(***************************************************************************)
(* build (lines 439-583).                                                  *)
(***************************************************************************)
\* The lexicographic order of the output names the model uses.
OutputNameOrder == <<"out_a", "out_b">>

OutputNameRank(name) == CHOOSE i \in DOMAIN OutputNameOrder : OutputNameOrder[i] = name

\* collections.OrderedDict(sorted(output_signature.items(), key=lambda t: t[0]))
SortedSignature(signature) ==
    LET ranks == SeqFromSet({OutputNameRank(signature[i].key) : i \in DOMAIN signature})
    IN [k \in DOMAIN ranks |->
           signature[CHOOSE i \in DOMAIN signature :
                         OutputNameRank(signature[i].key) = ranks[k]]]

\* line 505
AllSinksReady == \A t \in DOMAIN sink_tensors_ready : sink_tensors_ready[t]

\* The phase counter left as it is at the end of an iteration.
NextPhaseStuck(k) == k

\* line 556
NextPhase(k) == k + 1

\* The scan of the sinks abandoned at the first sink that is not ready.
StopAtUnreadySink(index) == Len(tensor_sinks) + 1

\* line 541: continue with the next sink
AfterUnreadySink(index) == index + 1

PlannerVars == <<tensor_sinks, phase, tensor_bindings, sink_tensors_ready, graph_analyzer,
                 sink_index, translate_visitor, translate_cache, signature_heap,
                 analyzers_input_signature, resolved_phase>>

OptimizerVars == <<saved_model_future, optimize_visitor, optimize_cache>>

ArgVars == <<run, arg_dataset_keys, arg_output_signature, cache_dict, hasher, call>>

\* lines 493-504
BuildStart ==
    /\ pc = "build"
    /\ tensor_sinks' = graph.collection
    /\ graph' = [graph EXCEPT !.collection = <<>>]
    /\ phase' = 0
    /\ tensor_bindings' = <<>>
    /\ sink_tensors_ready' =
           [t \in {graph.collection[i].tensor : i \in DOMAIN graph.collection} |-> FALSE]
    /\ translate_visitor' = [phase |-> None, extracted_values_dict |-> None,
                             intermediate_output_signature |-> None]
    /\ translate_cache' = EmptyMap
    /\ analyzers_input_signature' = <<>>
    /\ graph_analyzer' = None
    /\ signature_heap' = EmptyMap
    /\ sink_index' = 0
    /\ resolved_phase' = EmptyMap
    /\ pc' = "while"
    /\ UNCHANGED <<OptimizerVars, ArgVars, result, error, ANALYSIS_GRAPH>>

\* A plausible slip: the bindings are not passed on.
UnboundSavedModel(phase_, bindings) ==
    ApplyOperation(
        CreateSavedModel(<<>>, IntermediateRef(phase_),
            Bracket(<<"CreateSavedModelForAnalyzerInputs">>, <<NatStr(phase_)>>)),
        <<>>)

\* lines 516-522: *tensor_bindings passes the bindings there are at the call.
IntermediateSavedModel(phase_, bindings) ==
    ApplyOperation(
        CreateSavedModel(<<>>, IntermediateRef(phase_),
            Bracket(<<"CreateSavedModelForAnalyzerInputs">>, <<NatStr(phase_)>>)),
        bindings)

\* lines 505-534: the loop test holds; the oracle, the intermediate
\* CreateSavedModel and ApplySavedModel of this phase.
BeginPhase ==
    /\ pc = "while"
    /\ ~AllSinksReady
    /\ graph_analyzer' = InitializableGraphAnalyzer(sink_tensors_ready)
    /\ LET ref == IntermediateRef(phase)
           future == IntermediateSavedModel(phase, tensor_bindings)
           extracted_values_dict == ApplyOperation(
               ApplySavedModel(<<>>, phase, Bracket(<<"ApplySavedModel">>, <<NatStr(phase)>>)),
               <<future>>)
       IN /\ signature_heap' = (ref :> <<>>) @@ signature_heap
          /\ saved_model_future' = future
          /\ translate_visitor' = [phase |-> phase,
                                   extracted_values_dict |-> extracted_values_dict,
                                   intermediate_output_signature |-> ref]
    /\ sink_index' = 1
    /\ pc' = "for"
    /\ UNCHANGED <<graph, tensor_sinks, phase, tensor_bindings, sink_tensors_ready,
                   translate_cache, analyzers_input_signature, resolved_phase,
                   optimize_visitor, optimize_cache, ArgVars, result, error, ANALYSIS_GRAPH>>

\* A plausible slip: the test for an already bound sink never holds.
NeverBound(ready, tensor) == FALSE

\* line 537
AlreadyBound(ready, tensor) == ready[tensor]

\* lines 537-538
SkipBoundSink ==
    /\ pc = "for"
    /\ sink_index <= Len(tensor_sinks)
    /\ AlreadyBound(sink_tensors_ready, tensor_sinks[sink_index].tensor)
    /\ sink_index' = sink_index + 1
    /\ UNCHANGED <<pc, graph, tensor_sinks, phase, tensor_bindings, sink_tensors_ready,
                   graph_analyzer, translate_visitor, translate_cache, signature_heap,
                   analyzers_input_signature, resolved_phase, OptimizerVars, ArgVars,
                   result, error, ANALYSIS_GRAPH>>

\* lines 540-541
SkipUnreadySink ==
    /\ pc = "for"
    /\ sink_index <= Len(tensor_sinks)
    /\ ~AlreadyBound(sink_tensors_ready, tensor_sinks[sink_index].tensor)
    /\ ~ReadyVisitValueNode(graph_analyzer, tensor_sinks[sink_index].value_node)
    /\ sink_index' = AfterUnreadySink(sink_index)
    /\ UNCHANGED <<pc, graph, tensor_sinks, phase, tensor_bindings, sink_tensors_ready,
                   graph_analyzer, translate_visitor, translate_cache, signature_heap,
                   analyzers_input_signature, resolved_phase, OptimizerVars, ArgVars,
                   result, error, ANALYSIS_GRAPH>>

\* lines 543-553
BindSink ==
    /\ pc = "for"
    /\ sink_index <= Len(tensor_sinks)
    /\ LET sink == tensor_sinks[sink_index]
           st == TranslateMaybeVisit(translate_visitor, sink.value_node.parent_operation,
                                     [cache |-> translate_cache, heap |-> signature_heap])
           translated_value_node == Cached(st.cache, sink.value_node)
           name == tensor_name(sink.tensor)
       IN /\ ~AlreadyBound(sink_tensors_ready, sink.tensor)
          /\ ReadyVisitValueNode(graph_analyzer, sink.value_node)
          /\ translate_cache' = st.cache
          /\ signature_heap' = st.heap
          /\ tensor_bindings' = Append(tensor_bindings,
                 ApplyOperation(
                     CreateTensorBinding(TensorFullName(sink.tensor), sink.is_asset_filepath,
                                         Bracket(<<"CreateTensorBinding">>, name)),
                     <<translated_value_node>>))
          /\ sink_tensors_ready' = [sink_tensors_ready EXCEPT ![sink.tensor] = TRUE]
          /\ resolved_phase' = (sink.tensor :> phase) @@ resolved_phase
    /\ sink_index' = sink_index + 1
    /\ UNCHANGED <<pc, graph, tensor_sinks, phase, graph_analyzer, translate_visitor,
                   analyzers_input_signature, OptimizerVars, ArgVars, result, error,
                   ANALYSIS_GRAPH>>

\* lines 555-556
EndPhase ==
    /\ pc = "for"
    /\ sink_index > Len(tensor_sinks)
    /\ analyzers_input_signature' =
           DictUpdate(analyzers_input_signature,
                      signature_heap[translate_visitor.intermediate_output_signature])
    /\ phase' = NextPhase(phase)
    /\ pc' = "while"
    /\ UNCHANGED <<graph, tensor_sinks, tensor_bindings, sink_tensors_ready, graph_analyzer,
                   sink_index, translate_visitor, translate_cache, signature_heap,
                   resolved_phase, OptimizerVars, ArgVars, result, error, ANALYSIS_GRAPH>>

\* lines 558-577 and 425-428: the loop test fails; the final CreateSavedModel,
\* the paths of the analyzer inputs, the optimize visitor and its traverser.
FinishPlan ==
    /\ pc = "while"
    /\ AllSinksReady
    /\ signature_heap' = (FinalRef :> SortedSignature(arg_output_signature)) @@ signature_heap
    /\ saved_model_future' = ApplyOperation(
           CreateSavedModel(<<>>, FinalRef, <<"CreateSavedModel">>), tensor_bindings)
    /\ LET tensor_keys_to_paths ==
               [i \in DOMAIN analyzers_input_signature |->
                   [key |-> analyzers_input_signature[i].key,
                    value |-> get_unique_path(graph_analyzer,
                                              analyzers_input_signature[i].value)]]
       IN optimize_visitor' = OptimizeVisitor(
              IF IsNone(arg_dataset_keys) THEN <<>> ELSE arg_dataset_keys.list,
              cache_dict, tensor_keys_to_paths, <<>>)
    /\ optimize_cache' = EmptyMap
    /\ pc' = "traverse"
    /\ UNCHANGED <<graph, tensor_sinks, phase, tensor_bindings, sink_tensors_ready,
                   graph_analyzer, sink_index, translate_visitor, translate_cache,
                   analyzers_input_signature, resolved_phase, ArgVars, result, error,
                   ANALYSIS_GRAPH>>

\* What optimize_traverser does with the next operation node: the visit and
\* the validation of its values.
TraverseStep ==
    LET operation_node == FirstUnvisited(optimize_cache, saved_model_future.parent_operation)
        visited == OptimizeVisit(optimize_visitor, operation_node.operation_def,
                                 InputValues(optimize_cache, operation_node))
    IN IF visited.tag = "raise" THEN visited
       ELSE IF \E i \in DOMAIN visited.value.views :
                   validate_value(optimize_visitor, visited.value.views[i]).tag = "raise"
       THEN Raise("AssertionError")
       ELSE Return([operation_node |-> operation_node,
                    views |-> visited.value.views,
                    cache_output_nodes |-> visited.value.cache_output_nodes])

\* One operation node of the plan is visited (line 429).
VisitNode ==
    /\ pc = "traverse"
    /\ saved_model_future.parent_operation \notin DOMAIN optimize_cache
    /\ TraverseStep.tag = "return"
    /\ optimize_cache' = (TraverseStep.value.operation_node :> TraverseStep.value.views)
                             @@ optimize_cache
    /\ optimize_visitor' = [optimize_visitor EXCEPT
                               !.cache_output_nodes = TraverseStep.value.cache_output_nodes]
    /\ UNCHANGED <<pc, graph, PlannerVars, saved_model_future, ArgVars, result, error,
                   ANALYSIS_GRAPH>>

\* A visit raises: build ends with the exception.
VisitRaises ==
    /\ pc = "traverse"
    /\ saved_model_future.parent_operation \notin DOMAIN optimize_cache
    /\ TraverseStep.tag = "raise"
    /\ error' = TraverseStep
    /\ pc' = "raised"
    /\ UNCHANGED <<graph, PlannerVars, OptimizerVars, ArgVars, result, ANALYSIS_GRAPH>>

\* A plausible slip: an empty mapping is returned as None.
ReturnedMappingNoneWhenEmpty(cache_dict_, cache_output_nodes) ==
    IF cache_output_nodes = <<>> THEN None ELSE OrderedDictOf(cache_output_nodes)

\* lines 432-436: the mapping _perform_cache_optimization returns.
ReturnedMapping(cache_dict_, cache_output_nodes) ==
    IF IsNone(cache_dict_) THEN None ELSE OrderedDictOf(cache_output_nodes)

\* lines 429-436 and 578-583
ReturnPlan ==
    /\ pc = "traverse"
    /\ saved_model_future.parent_operation \in DOMAIN optimize_cache
    /\ LET optimized == Cached(optimize_cache, saved_model_future).flattened_view
           cache_output_nodes ==
               ReturnedMapping(cache_dict, optimize_visitor.cache_output_nodes)
       IN IF IsNone(cache_dict) /\ optimize_visitor.cache_output_nodes # <<>>
          THEN /\ error' = Raise("AssertionError: not cache_output_nodes")
               /\ pc' = "raised"
               /\ UNCHANGED <<result, ANALYSIS_GRAPH>>
          ELSE /\ result' = Append(result,
                       [optimized_saved_model_future |-> optimized,
                        output_cache_value_nodes |-> cache_output_nodes,
                        signatures |-> signature_heap,
                        args |-> [dataset_keys |-> arg_dataset_keys,
                                  output_signature |-> arg_output_signature,
                                  cache_dict |-> cache_dict]])
               /\ ANALYSIS_GRAPH' = optimized
               /\ pc' = "done"
               /\ UNCHANGED error
    /\ UNCHANGED <<graph, PlannerVars, OptimizerVars, ArgVars>>

(***************************************************************************)
(* The calls of build the model explores.                                  *)
(***************************************************************************)
DatasetKeyArgs == {None, [list |-> <<"train">>], [list |-> <<"train", "eval">>]}

OutputSignatureArg ==
    <<[key |-> "out_b", value |-> InputTensor], [key |-> "out_a", value |-> InputTensor]>>

EmptyCache == [entries |-> {}]

InitWith(graphs, dataset_key_args, caches) ==
    /\ pc = "build"
    /\ run = 1
    /\ graph \in graphs
    /\ arg_dataset_keys \in dataset_key_args
    /\ arg_output_signature = OutputSignatureArg
    /\ cache_dict \in caches
    /\ tensor_sinks = <<>>
    /\ phase = 0
    /\ tensor_bindings = <<>>
    /\ sink_tensors_ready = EmptyMap
    /\ graph_analyzer = None
    /\ sink_index = 0
    /\ translate_visitor = None
    /\ translate_cache = EmptyMap
    /\ signature_heap = EmptyMap
    /\ analyzers_input_signature = <<>>
    /\ saved_model_future = None
    /\ optimize_visitor = None
    /\ optimize_cache = EmptyMap
    /\ result = <<>>
    /\ error = None
    /\ resolved_phase = EmptyMap
    /\ ANALYSIS_GRAPH = None
    /\ hasher = None
    /\ call = None

Init == InitWith(Graphs(MaxSinks), DatasetKeyArgs, {None, EmptyCache})

Next ==
    \/ BuildStart
    \/ BeginPhase
    \/ SkipBoundSink
    \/ SkipUnreadySink
    \/ BindSink
    \/ EndPhase
    \/ FinishPlan
    \/ VisitNode
    \/ VisitRaises
    \/ ReturnPlan

Spec == Init /\ [][Next]_vars

(***************************************************************************)
(* A second call of build on the same graph with the same pending sinks:   *)
(* with its arguments supplied in another iteration order, or with a cache *)
(* that holds some of the entries the first call asked to be written.      *)
(***************************************************************************)
SeqPermutations(seq) ==
    {[i \in DOMAIN seq |-> seq[q[i]]] :
        q \in {f \in [DOMAIN seq -> DOMAIN seq] : Range(f) = DOMAIN seq}}

RerunVars == <<PlannerVars, OptimizerVars, result, error, ANALYSIS_GRAPH, hasher, call>>

RebuildReordered ==
    /\ pc = "done"
    /\ run = 1
    /\ run' = 2
    /\ graph' = [graph EXCEPT !.collection = tensor_sinks]
    /\ arg_dataset_keys' \in
           IF IsNone(arg_dataset_keys) THEN {None}
           ELSE {[list |-> l] : l \in SeqPermutations(arg_dataset_keys.list)}
    /\ arg_output_signature' \in SeqPermutations(arg_output_signature)
    /\ pc' = "build"
    /\ UNCHANGED <<cache_dict, RerunVars>>

RebuildWithCache ==
    /\ pc = "done"
    /\ run = 1
    /\ ~IsNone(cache_dict)
    /\ run' = 2
    /\ graph' = [graph EXCEPT !.collection = tensor_sinks]
    /\ \E written \in (SUBSET DictKeys(result[1].output_cache_value_nodes.items)) \ {{}} :
           /\ Cardinality(written) <= MaxWritten
           /\ cache_dict' = [entries |-> cache_dict.entries \cup written]
    /\ pc' = "build"
    /\ UNCHANGED <<arg_dataset_keys, arg_output_signature, RerunVars>>

\* The rebuilt graphs: sinks that are independent of each other, or a chain in
\* which each sink reads the output of the one before it.
RerunGraphs(max_sinks) ==
    {g \in Graphs(max_sinks) :
        \/ \A i \in 1..g.n : g.deps[i] = {}
        \/ \A i \in 1..g.n : g.deps[i] = IF i = 1 THEN {} ELSE {i - 1}}

InitRerun == InitWith(RerunGraphs(MaxRerunSinks), DatasetKeyArgs, {None, EmptyCache})

NextRerun ==
    \/ Next
    \/ RebuildReordered
    \/ RebuildWithCache

SpecRerun == InitRerun /\ [][NextRerun]_vars

(***************************************************************************)
(* The path hasher called on its own, on every combination of a node and a *)
(* parents argument.                                                       *)
(***************************************************************************)
HashValues == {None, Sha1(<<Bytes(<<"p">>)>>), Sha1(<<Bytes(<<"q">>)>>)}

HasherNodes ==
    {None, StrArg(<<"x">>), TfTensorArg(0), TfTensorArg(1),
     TfOperation(EmptyMap),
     TfOperation((1 :> [value |-> <<"DT_FLOAT">>, func |-> FALSE])),
     TfOperation((2 :> [value |-> <<"f">>, func |-> TRUE])),
     TfOperation((2 :> [value |-> <<"f">>, func |-> TRUE])
                     @@ (1 :> [value |-> <<"DT_FLOAT">>, func |-> FALSE]))}

HasherParents ==
    {None} \cup {ParentList(l) : l \in UNION {[1..n -> HashValues] : n \in 0..MaxParents}}

InitHash ==
    /\ hasher \in {[x |-> x, parents |-> ps, result |-> None] :
                      x \in HasherNodes, ps \in HasherParents}
    /\ pc = "hash"
    /\ run = 1
    /\ graph = [n |-> 0, deps |-> EmptyMap, shape |-> "plain", collection |-> <<>>]
    /\ arg_dataset_keys = None
    /\ arg_output_signature = <<>>
    /\ cache_dict = None
    /\ tensor_sinks = <<>>
    /\ phase = 0
    /\ tensor_bindings = <<>>
    /\ sink_tensors_ready = EmptyMap
    /\ graph_analyzer = None
    /\ sink_index = 0
    /\ translate_visitor = None
    /\ translate_cache = EmptyMap
    /\ signature_heap = EmptyMap
    /\ analyzers_input_signature = <<>>
    /\ saved_model_future = None
    /\ optimize_visitor = None
    /\ optimize_cache = EmptyMap
    /\ result = <<>>
    /\ error = None
    /\ resolved_phase = EmptyMap
    /\ ANALYSIS_GRAPH = None
    /\ call = None

CallHasher ==
    /\ pc = "hash"
    /\ hasher' = [hasher EXCEPT
                     !.result = describe_path_as_analyzer_cache_hash(hasher.x, hasher.parents)]
    /\ pc' = "hashed"
    /\ UNCHANGED <<run, graph, arg_dataset_keys, arg_output_signature, cache_dict,
                   PlannerVars, OptimizerVars, result, error, ANALYSIS_GRAPH, call>>

SpecHash == InitHash /\ [][CallHasher]_vars

(***************************************************************************)
(* The visits of _ReadyVisitor and _OptimizeVisitor called on their own,   *)
(* on every combination of an operation definition and input values.       *)
(***************************************************************************)
\* The dataset keys of the visitor.
VisitDatasetKeys == {<<>>, <<"train">>, <<"eval", "train">>}

Leaf(name) == ApplyOperation(AnalyzerDef(name, <<name>>, 1, FALSE, None), <<>>)

\* A fine grained view with one value node per key.
LeafPartitions(name, keys) ==
    OrderedDictOf([i \in DOMAIN keys |->
                      [key |-> keys[i], value |-> Leaf(Bracket(<<name>>, <<keys[i]>>)[1])]])

\* The views an input of a visit can be: without a fine grained view, with
\* the one of the phase-0 ApplySavedModel, and with a preferred one.
InputViews(keys) ==
    {OptimizationView(FALSE, Leaf("a"), None, None).value,
     OptimizationView(FALSE, Leaf("b"), None, None).value,
     OptimizationView(FALSE, Leaf("root"), LeafPartitions("root", keys),
                      Bytes(<<"APPLY_SAVEDMODEL">>)).value}
    \cup (IF keys = <<>> THEN {}
          ELSE {OptimizationView(TRUE, Leaf("cached"), LeafPartitions("cached", keys),
                                 Sha1(<<Bytes(<<"cached">>)>>)).value})

VisitOperationDefs ==
    {ApplySavedModel(<<>>, 0, Bracket(<<"ApplySavedModel">>, <<"0">>)),
     ApplySavedModel(<<>>, 1, Bracket(<<"ApplySavedModel">>, <<"1">>)),
     ExtractFromDict(<<<<"x">>>>, <<"Extract">>),
     AnalyzerDef("Accumulate", <<"Accumulate">>, 1, TRUE, Coder),
     AnalyzerDef("Merge", <<"Merge">>, 1, FALSE, None),
     AnalyzerDef("Unpack", <<"Unpack">>, 2, FALSE, None),
     AnalyzerDef("CachedMerge", <<"CachedMerge">>, 1, FALSE, Coder),
     AnalyzerDef("CachedUnpack", <<"CachedUnpack">>, 2, FALSE, Coder),
     AnalyzerDef("Split", <<"Split">>, 2, TRUE, None),
     AnalyzerDef("CachedSplit", <<"CachedSplit">>, 2, TRUE, Coder)}

OptimizeCalls ==
    UNION {
        {[fn |-> "optimize",
          visitor |-> OptimizeVisitor(
              keys, cache,
              <<[key |-> <<"x">>,
                 value |-> describe_path_as_analyzer_cache_hash(StrArg(<<"x">>), None).value]>>,
              <<>>),
          operation_def |-> operation_def,
          input_values |-> input_values,
          result |-> None] :
            cache \in {None, EmptyCache},
            operation_def \in VisitOperationDefs,
            input_values \in UNION {[1..n -> InputViews(keys)] : n \in 0..MaxInputs}} :
        keys \in VisitDatasetKeys}

ReadyCalls ==
    LET analyzers == {InitializableGraphAnalyzer(ready) :
                         ready \in [{SinkTensor(1), SinkTensor(2)} -> BOOLEAN]}
        tensors == {InputTensor, DepTensor(1), DepTensor(2)}
    IN {[fn |-> "ready", graph_analyzer |-> analyzer,
         operation_def |-> TensorSource(ts, <<"TensorSource">>),
         ready_values |-> <<>>, result |-> None] :
            analyzer \in analyzers,
            ts \in UNION {[1..n -> tensors] : n \in 0..MaxInputs}}
       \cup
       {[fn |-> "ready", graph_analyzer |-> analyzer,
         operation_def |-> operation_def,
         ready_values |-> input_values, result |-> None] :
            analyzer \in analyzers,
            operation_def \in {AnalyzerDef("Merge", <<"Merge">>, 1, FALSE, None),
                               AnalyzerDef("Unpack", <<"Unpack">>, 2, FALSE, None)},
            input_values \in UNION {[1..n -> BOOLEAN] : n \in 0..MaxInputs}}

InitVisit ==
    /\ call \in OptimizeCalls \cup ReadyCalls
    /\ pc = "visit"
    /\ hasher = None
    /\ run = 1
    /\ graph = [n |-> 0, deps |-> EmptyMap, shape |-> "plain", collection |-> <<>>]
    /\ arg_dataset_keys = None
    /\ arg_output_signature = <<>>
    /\ cache_dict = None
    /\ tensor_sinks = <<>>
    /\ phase = 0
    /\ tensor_bindings = <<>>
    /\ sink_tensors_ready = EmptyMap
    /\ graph_analyzer = None
    /\ sink_index = 0
    /\ translate_visitor = None
    /\ translate_cache = EmptyMap
    /\ signature_heap = EmptyMap
    /\ analyzers_input_signature = <<>>
    /\ saved_model_future = None
    /\ optimize_visitor = None
    /\ optimize_cache = EmptyMap
    /\ result = <<>>
    /\ error = None
    /\ resolved_phase = EmptyMap
    /\ ANALYSIS_GRAPH = None

VisitUnchanged == <<run, graph, arg_dataset_keys, arg_output_signature, cache_dict,
                    PlannerVars, OptimizerVars, result, error, ANALYSIS_GRAPH, hasher>>

\* _ReadyVisitor(graph_analyzer).visit(operation_def, input_values)
CallReadyVisit ==
    /\ pc = "visit"
    /\ call.fn = "ready"
    /\ call' = [call EXCEPT
                   !.result = Return(ReadyVisit(call.graph_analyzer, call.operation_def,
                                                call.ready_values))]
    /\ pc' = "visited"
    /\ UNCHANGED VisitUnchanged

\* _OptimizeVisitor(...).visit(operation_def, input_values)
CallOptimizeVisit ==
    /\ pc = "visit"
    /\ call.fn = "optimize"
    /\ call' = [call EXCEPT
                   !.result = OptimizeVisit(call.visitor, call.operation_def,
                                            call.input_values)]
    /\ pc' = "visited"
    /\ UNCHANGED VisitUnchanged

NextVisit ==
    \/ CallReadyVisit
    \/ CallOptimizeVisit

SpecVisit == InitVisit /\ [][NextVisit]_vars

(***************************************************************************)
(* Properties of the phase planner.                                        *)
(***************************************************************************)
Resolved(i) == SinkTensor(i) \in DOMAIN resolved_phase

PhaseOf(i) == resolved_phase[SinkTensor(i)]

LoopExited == pc \in {"traverse", "raised", "done"}

Max(set) == CHOOSE m \in set : \A k \in set : k <= m

\* The length of the longest dependency path that ends in sink i.
RECURSIVE Depth(_, _)
Depth(deps, i) == IF deps[i] = {} THEN 0 ELSE 1 + Max({Depth(deps, j) : j \in deps[i]})

\* C1: a sink is resolved in iteration k only if every sink it depends on,
\* directly or transitively, was resolved in an iteration strictly before k;
\* a sink resolved earlier in iteration k makes no sink ready within k.
C1_PhaseOrdering ==
    \A i \in 1..graph.n :
        Resolved(i) =>
            \A j \in TransitiveDeps(graph.deps, i, graph.n) :
                Resolved(j) /\ PhaseOf(j) < PhaseOf(i)

\* A sink that reads the output of a sink listed before it, and so examined
\* after that sink was resolved in iteration 0, is resolved in iteration 1.
C1_Witness ==
    \E i \in 1..graph.n : \E j \in graph.deps[i] :
        /\ j < i
        /\ Resolved(i) /\ Resolved(j)
        /\ PhaseOf(j) = 0
        /\ PhaseOf(i) = 1

\* C2: every sink is resolved in the first phase in which all it depends on
\* is available: phase 0 without dependencies, phase j + 1 when its deepest
\* dependency was resolved in phase j, and never later; the loop ends with
\* as many phases as the deepest sink needs (two for the chain min -> max).
C2_MinimalPhase ==
    /\ \A i \in 1..graph.n : Resolved(i) => PhaseOf(i) = Depth(graph.deps, i)
    /\ (pc = "while" /\ phase >= 1) =>
           \A i \in 1..graph.n :
               (\A j \in graph.deps[i] : Resolved(j) /\ PhaseOf(j) < phase - 1)
                   => Resolved(i)
    /\ (LoopExited /\ graph.n > 0) =>
           phase = 1 + Max({Depth(graph.deps, i) : i \in 1..graph.n})

\* The chain of two sinks: the first resolved in phase 0, the second, which
\* reads it, in phase 1, two phases in all.
C2_Witness ==
    /\ LoopExited
    /\ graph.n = 2
    /\ graph.deps[1] = {} /\ graph.deps[2] = {1}
    /\ PhaseOf(1) = 0 /\ PhaseOf(2) = 1
    /\ phase = 2

\* C3: every iteration of the phase loop resolves at least one sink that was
\* not resolved before, the phase counter grows by exactly one per
\* iteration, and the loop exits with all sinks resolved after at most as
\* many iterations as there are sinks (the counter never exceeds the number
\* of sinks, so the iterations, each resolving a new sink, come to an end).
C3_Progress ==
    /\ []((pc = "for" /\ sink_index > Len(tensor_sinks)) =>
              \E i \in 1..graph.n : Resolved(i) /\ PhaseOf(i) = phase)
    /\ [][(pc = "for" /\ pc' = "while") => phase' = phase + 1]_vars
    /\ [][phase' # phase => (pc = "for" /\ pc' = "while")]_vars
    /\ [](phase <= graph.n)
    /\ [](LoopExited => \A i \in 1..graph.n : Resolved(i))

\* The loop has exited after as many iterations as there are sinks, each of
\* which resolved one sink.
C3_Witness ==
    /\ LoopExited
    /\ graph.n = MaxSinks
    /\ phase = graph.n
    /\ \A i \in 1..graph.n : Resolved(i)

(***************************************************************************)
(* Properties of the cache optimizer.                                      *)
(***************************************************************************)
\* The declared partition keys.
DeclaredKeys == IF IsNone(arg_dataset_keys) THEN {} ELSE Range(arg_dataset_keys.list)

\* The operation nodes of the plan visited so far that are partitionable and
\* cacheable.
CacheableNodes ==
    {node \in DOMAIN optimize_cache :
        /\ node.operation_def.is_partitionable
        /\ ~IsNone(node.operation_def.cache_coder)}

ViewOf(node) == optimize_cache[node][1]

UpstreamView(node) == Cached(optimize_cache, node.inputs[1])

EntryKeyOf(node) == make_cache_entry_key(node.operation_def.label, ViewOf(node).hashed_path)

\* The mapping returned by the latest call of build.
OutputMapping == result[Len(result)].output_cache_value_nodes.items

\* The application of the node's operation to partition p of its input.
AppliedToPartition(node, p) ==
    ApplyOperation(
        ReplaceLabel(node.operation_def, Bracket(node.operation_def.label, <<p>>)),
        <<DictGet(UpstreamView(node).fine_grained_view.items, p)>>)

\* The entries of the returned mapping that hold an encode-cache node for
\* partition p of the node's operation under (p, cache-entry-key).
EncodeEntries(node, p) ==
    {i \in DOMAIN OutputMapping :
        /\ OutputMapping[i].key = CacheOutputKey(p, EntryKeyOf(node))
        /\ OutputMapping[i].value.parent_operation.operation_def.cls = "EncodeCache"
        /\ OutputMapping[i].value.parent_operation.inputs = <<AppliedToPartition(node, p)>>}

NoPriorEntry(node) ==
    \A p \in DeclaredKeys : ~CacheHit(cache_dict, p, EntryKeyOf(node))

\* C4 as stated: every partitionable and cacheable operation of a graph
\* optimized with caching enabled and no prior cache entry has exactly one
\* encode-cache node per declared partition key in the returned mapping,
\* under (partition key, cache-entry-key).
C4_EncodePerPartition_AsStated ==
    (pc = "done" /\ ~IsNone(cache_dict)) =>
        \A node \in CacheableNodes :
            NoPriorEntry(node) =>
                \A p \in DeclaredKeys : Cardinality(EncodeEntries(node, p)) = 1

\* C4, amended: the same for every partitionable and cacheable operation
\* whose input carries a non-empty fine-grained view, as the operations fed
\* by the phase-0 apply-saved-model do.
C4_EncodePerPartition ==
    (pc = "done" /\ ~IsNone(cache_dict)) =>
        \A node \in CacheableNodes :
            (NoPriorEntry(node) /\ Truthy(UpstreamView(node).fine_grained_view)) =>
                \A p \in DeclaredKeys : Cardinality(EncodeEntries(node, p)) = 1

\* Two partition keys, and a cacheable operation over a fine-grained input
\* with its two encode-cache entries returned.
C4_Witness ==
    /\ pc = "done"
    /\ ~IsNone(cache_dict)
    /\ Cardinality(DeclaredKeys) = 2
    /\ \E node \in CacheableNodes :
           /\ NoPriorEntry(node)
           /\ Truthy(UpstreamView(node).fine_grained_view)
           /\ \A p \in DeclaredKeys : Cardinality(EncodeEntries(node, p)) = 1

\* The mapping returned by the first call of build.
FirstMapping == result[1].output_cache_value_nodes.items

NodesWithEntryKey(cache_entry_key) ==
    {node \in CacheableNodes :
        /\ Truthy(ViewOf(node).fine_grained_view)
        /\ EntryKeyOf(node) = cache_entry_key}

\* C5: when the mapping of a first optimization holds (p, e) for a
\* cacheable operation and the graph is optimized again with a cache that
\* has an entry at [p][e], partition p of the operation is a decode-cache
\* node without inputs and (p, e) is not returned again; the partitions
\* without a cache entry are still computed and still return their
\* encode-cache entry.
C5_CacheRoundTrip ==
    (run = 2 /\ pc = "done" /\ ~IsNone(cache_dict)) =>
        \A k \in DictKeys(FirstMapping) :
            /\ NodesWithEntryKey(k.cache_entry_key) # {}
            /\ \A node \in NodesWithEntryKey(k.cache_entry_key) :
                   LET produced == DictGet(ViewOf(node).fine_grained_view.items,
                                           k.dataset_key)
                   IN IF k \in cache_dict.entries
                      THEN /\ produced.parent_operation.operation_def =
                                  DecodeCache(k.dataset_key, k.cache_entry_key,
                                              node.operation_def.label,
                                              node.operation_def.cache_coder)
                           /\ produced.parent_operation.inputs = <<>>
                           /\ ~DictHas(OutputMapping, k)
                      ELSE /\ produced = AppliedToPartition(node, k.dataset_key)
                           /\ Cardinality(EncodeEntries(node, k.dataset_key)) = 1

\* The second optimization finds one returned pair of the first in the
\* cache and another one not.
C5_Witness ==
    /\ run = 2
    /\ pc = "done"
    /\ ~IsNone(cache_dict)
    /\ \E k \in DictKeys(FirstMapping) : k \in cache_dict.entries /\ ~DictHas(OutputMapping, k)
    /\ \E k \in DictKeys(FirstMapping) : k \notin cache_dict.entries /\ DictHas(OutputMapping, k)

AllViews == UNION {Range(optimize_cache[node]) : node \in DOMAIN optimize_cache}

\* C6: every optimization view that carries a fine-grained view has exactly
\* the declared partition keys as its key set, whatever the visit that
\* produced it and whatever the mix of cache hits and misses; the
\* validation of the views never fails.
C6_PartitionCoverage ==
    /\ \A view \in AllViews :
           ~IsNone(view.fine_grained_view) =>
               DictKeys(view.fine_grained_view.items) = DeclaredKeys
    /\ error # Raise("AssertionError")

\* A fine-grained view over two partitions, one served from the cache and
\* one computed.
C6_Witness ==
    \E view \in AllViews :
        /\ Truthy(view.fine_grained_view)
        /\ Cardinality(DictKeys(view.fine_grained_view.items)) = 2
        /\ \E p, q \in DictKeys(view.fine_grained_view.items) :
               /\ DictGet(view.fine_grained_view.items, p)
                      .parent_operation.operation_def.cls = "DecodeCache"
               /\ DictGet(view.fine_grained_view.items, q)
                      .parent_operation.operation_def.cls # "DecodeCache"

\* C7: every optimization view constructed during the traversal that has
\* prefer_fine_grained_view set has a non-empty fine-grained view, and no
\* visit fails constructing a view that prefers a fine-grained view it does
\* not have.
C7_PreferNeedsFineGrainedView ==
    /\ \A view \in AllViews :
           view.prefer_fine_grained_view => Truthy(view.fine_grained_view)
    /\ error # Raise("ValueError: Cannot prefer fine_grained_view when one is not provided")

\* A cacheable operation visited with caching enabled both over an input
\* with a fine-grained view, which it then prefers, and over one without.
C7_Witness ==
    /\ ~IsNone(cache_dict)
    /\ \E node \in CacheableNodes :
           /\ Truthy(UpstreamView(node).fine_grained_view)
           /\ ViewOf(node).prefer_fine_grained_view
    /\ \E node \in CacheableNodes :
           /\ ~Truthy(UpstreamView(node).fine_grained_view)
           /\ ~ViewOf(node).prefer_fine_grained_view

\* The results of the two calls of build, without the arguments they record.
PlanOf(r) == [optimized_saved_model_future |-> r.optimized_saved_model_future,
              output_cache_value_nodes |-> r.output_cache_value_nodes,
              signatures |-> r.signatures]

\* C9: two calls of build on the same graph with the same pending sinks, the
\* same signatures, partition set and cache return structurally identical
\* plans, with identical labels and cache-entry-keys, in whatever order the
\* partition keys and the output-signature entries are supplied; the second
\* call fails no more than the first.
C9_Determinism ==
    (run = 2 /\ cache_dict = result[1].args.cache_dict) =>
        /\ pc # "raised"
        /\ pc = "done" => PlanOf(result[2]) = PlanOf(result[1])

\* The second call got both the partition keys and the output signature in
\* the other order, with caching enabled, and returned.
C9_Witness ==
    /\ run = 2
    /\ pc = "done"
    /\ ~IsNone(cache_dict)
    /\ cache_dict = result[1].args.cache_dict
    /\ ~IsNone(arg_dataset_keys)
    /\ Len(arg_dataset_keys.list) = 2
    /\ arg_dataset_keys # result[1].args.dataset_keys
    /\ arg_output_signature # result[1].args.output_signature
    /\ result[2].output_cache_value_nodes.items # <<>>

\* The visit of the node took the branch for the other operations (lines
\* 277-304) and flattened: some input prefers its fine-grained view.
FlattenedBefore(node) ==
    /\ ~(node.operation_def.cls = "ApplySavedModel" /\ node.operation_def.fields.phase = 0)
    /\ ~(~IsNone(optimize_visitor.cache_dict) /\ node.operation_def.is_partitionable)
    /\ ~node.operation_def.is_partitionable
    /\ \E i \in DOMAIN node.inputs :
           /\ Truthy(Cached(optimize_cache, node.inputs[i]).fine_grained_view)
           /\ Cached(optimize_cache, node.inputs[i]).prefer_fine_grained_view

\* The value node is the union of all partitions of the view, which stands
\* for the view's flattened view.
IsUnionOfPartitions(value_node, view) ==
    /\ Truthy(view.fine_grained_view)
    /\ value_node.parent_operation.operation_def.cls = "Flatten"
    /\ value_node.parent_operation.inputs = DictValues(view.fine_grained_view.items)

\* C10 as stated: a non-partitionable consumer, with one or several inputs,
\* visited with an input that prefers its fine-grained view is built as the
\* same consumer with the same number and order of inputs, each the
\* flattened view of the corresponding input or the union over all
\* partitions of its fine-grained view.
C10_FlattenEquivalence ==
    pc \in {"traverse", "done"} =>
        \A node \in DOMAIN optimize_cache :
            FlattenedBefore(node) =>
                LET built == ViewOf(node).flattened_view.parent_operation
                    input_values == InputValues(optimize_cache, node)
                IN /\ built.operation_def = node.operation_def
                   /\ Len(built.inputs) = Len(node.inputs)
                   /\ \A i \in DOMAIN node.inputs :
                          \/ built.inputs[i] = input_values[i].flattened_view
                          \/ IsUnionOfPartitions(built.inputs[i], input_values[i])

\* The same restricted to consumers of one input, which is how the code
\* builds them.
FlattenEquivalenceSingleInput ==
    pc \in {"traverse", "done"} =>
        \A node \in DOMAIN optimize_cache :
            (FlattenedBefore(node) /\ Len(node.inputs) = 1) =>
                LET built == ViewOf(node).flattened_view.parent_operation
                    input_values == InputValues(optimize_cache, node)
                IN /\ built.operation_def = node.operation_def
                   /\ Len(built.inputs) = 1
                   /\ IsUnionOfPartitions(built.inputs[1], input_values[1])

(***************************************************************************)
(* Properties of the path hasher.                                          *)
(***************************************************************************)
HasherCalled == ~IsNone(hasher) /\ ~IsNone(hasher.result)

SomeParentNone(parents) ==
    ~IsNone(parents) /\ \E i \in DOMAIN parents.list : IsNone(parents.list[i])

HasFuncAttr(x) ==
    ~IsNone(x) /\ x.kind = "Operation" /\ \E k \in DOMAIN x.attr : x.attr[k].func

IsFixedLengthDigest(r) ==
    r.tag = "return" /\ IsDigest(r.value) /\ DigestLen(r.value) = DigestSize

C11_MappingNoneIffNoCache ==
    /\ pc = "done" =>
           (IsNone(result[Len(result)].output_cache_value_nodes) <=> IsNone(cache_dict))
    /\ (pc = "traverse" /\ IsNone(cache_dict)) => optimize_visitor.cache_output_nodes = <<>>
    /\ error # Raise("AssertionError: not cache_output_nodes")

\* build returned an empty mapping for an empty cache dictionary, the graph
\* holding a cacheable operation that recorded nothing.
C11_Witness ==
    /\ pc = "done"
    /\ ~IsNone(cache_dict)
    /\ cache_dict.entries = {}
    /\ result[Len(result)].output_cache_value_nodes = OrderedDictOf(<<>>)
    /\ CacheableNodes # {}

(***************************************************************************)
(* Properties of single visits.                                            *)
(***************************************************************************)
OptimizeCalled == ~IsNone(call) /\ call.fn = "optimize" /\ ~IsNone(call.result)

ReadyCalled == ~IsNone(call) /\ call.fn = "ready" /\ ~IsNone(call.result)

NotCacheable == Raise("ValueError: Non partitionable OperationDefs cannot be cacheable")

NotOneOutput == Raise("ValueError: Cacheable OperationDefs must have exactly 1 output")

\* C12: every visit of the cache optimizer fails, with no view and no cache
\* output, when the operation has a cache coder but is not partitionable,
\* or is partitionable or cacheable with a number of outputs other than
\* one, whether or not caching is enabled; no other visit fails so.
C12_ValidatesDescriptor ==
    OptimizeCalled =>
        IF ~IsNone(call.operation_def.cache_coder) /\ ~call.operation_def.is_partitionable
        THEN call.result = NotCacheable
        ELSE IF /\ call.operation_def.is_partitionable
                       \/ ~IsNone(call.operation_def.cache_coder)
                /\ call.operation_def.num_outputs # 1
        THEN call.result = NotOneOutput
        ELSE call.result \notin {NotCacheable, NotOneOutput}

\* A partitionable operation without a cache coder and with two outputs was
\* visited with caching disabled, and the visit failed.
C12_Witness ==
    /\ OptimizeCalled
    /\ IsNone(call.visitor.cache_dict)
    /\ call.operation_def.is_partitionable
    /\ IsNone(call.operation_def.cache_coder)
    /\ call.operation_def.num_outputs = 2
    /\ call.result.tag = "raise"

(***************************************************************************)
(* Properties of the bindings and of the translated plan.                  *)
(***************************************************************************)
\* The sink a binding binds.
BoundSink(binding) ==
    CHOOSE i \in 1..graph.n :
        TensorFullName(SinkTensor(i)) = binding.parent_operation.operation_def.fields.tensor

IsBindingOfSink(binding, i) ==
    /\ binding.parent_operation.operation_def =
           CreateTensorBinding(TensorFullName(SinkTensor(i)), FALSE,
                               Bracket(<<"CreateTensorBinding">>, tensor_name(SinkTensor(i))))
    /\ binding.parent_operation.inputs =
           <<Cached(translate_cache, tensor_sinks[i].value_node)>>

\* C13: the list of bindings never binds a sink twice; after the loop it
\* holds exactly one binding per sink, in the order the sinks were resolved
\* (by phase, and within a phase in the order of the sinks), and the final
\* CreateSavedModel is built over all of them; without pending sinks the
\* loop does not iterate and the final node has no bindings.
C13_OneBindingPerSink ==
    /\ pc \in {"while", "for", "traverse", "raised", "done"} =>
           /\ Len(tensor_bindings) = Cardinality(DOMAIN resolved_phase)
           /\ \A k \in DOMAIN tensor_bindings :
                  \E i \in 1..graph.n : Resolved(i) /\ IsBindingOfSink(tensor_bindings[k], i)
           /\ \A k, l \in DOMAIN tensor_bindings :
                  k < l =>
                      LET i == BoundSink(tensor_bindings[k])
                          j == BoundSink(tensor_bindings[l])
                      IN \/ PhaseOf(i) < PhaseOf(j)
                         \/ PhaseOf(i) = PhaseOf(j) /\ i < j
    /\ LoopExited =>
           /\ Len(tensor_bindings) = graph.n
           /\ saved_model_future.parent_operation.operation_def =
                  CreateSavedModel(<<>>, FinalRef, <<"CreateSavedModel">>)
           /\ saved_model_future.parent_operation.inputs = tensor_bindings
           /\ graph.n = 0 => (phase = 0 /\ tensor_bindings = <<>>)

\* Two sinks resolved in two iterations, the first not bound again in the
\* second, and the final node built over the two bindings.
C13_Witness ==
    /\ LoopExited
    /\ graph.n = 2
    /\ phase = 2
    /\ Len(tensor_bindings) = 2
    /\ Len(saved_model_future.parent_operation.inputs) = 2

\* The bindings of the sinks resolved before phase k, in their order.
BindingsBefore(k) ==
    SelectSeq(tensor_bindings, LAMBDA b : PhaseOf(BoundSink(b)) < k)

\* The ApplySavedModel nodes the translated value nodes read from.
RECURSIVE ApplySavedModelsBelow(_)
ApplySavedModelsBelow(operation_node) ==
    (IF operation_node.operation_def.cls = "ApplySavedModel" THEN {operation_node} ELSE {})
    \cup UNION {ApplySavedModelsBelow(operation_node.inputs[i].parent_operation) :
                   i \in DOMAIN operation_node.inputs}

\* C14: the CreateSavedModel synthesized at the start of phase k is bound to
\* exactly the bindings of the sinks resolved in phases 0..k-1, none in
\* phase 0, also after bindings are appended in iteration k; so every
\* ApplySavedModel of phase k in the plan embeds the analyzer results of
\* the earlier phases and none of phase k or later.
C14_IntermediateBindings ==
    /\ pc = "for" =>
           /\ translate_visitor.extracted_values_dict =
                  ApplyOperation(
                      ApplySavedModel(<<>>, phase,
                                      Bracket(<<"ApplySavedModel">>, <<NatStr(phase)>>)),
                      <<saved_model_future>>)
           /\ saved_model_future.parent_operation.operation_def.fields.output_signature =
                  IntermediateRef(phase)
           /\ saved_model_future.parent_operation.inputs = BindingsBefore(phase)
    /\ pc \in {"while", "for", "traverse", "raised", "done"} =>
           \A k \in DOMAIN tensor_bindings :
               \A asm \in ApplySavedModelsBelow(tensor_bindings[k].parent_operation) :
                   /\ asm.operation_def.fields.phase <= PhaseOf(BoundSink(tensor_bindings[k]))
                   /\ asm.inputs[1].parent_operation.inputs =
                          BindingsBefore(asm.operation_def.fields.phase)

\* In iteration 1 a binding has been appended to the one of phase 0, and the
\* CreateSavedModel of the phase still holds the one of phase 0 only.
C14_Witness ==
    /\ pc = "for"
    /\ phase = 1
    /\ Len(tensor_bindings) = 2
    /\ Len(saved_model_future.parent_operation.inputs) = 1

\* C15: the readiness visitor returns one boolean per declared output, all
\* equal; for a TensorSource they say whether the oracle reports every
\* source tensor ready to run, for any other operation whether all input
\* values are ready (which holds of an operation without inputs).
C15_ReadyVisitor ==
    ReadyCalled =>
        LET ready == call.result.value
            operation_def == call.operation_def
        IN /\ call.result.tag = "return"
           /\ DOMAIN ready = 1..operation_def.num_outputs
           /\ \A i \in DOMAIN ready : ready[i] \in BOOLEAN
           /\ \A i, j \in DOMAIN ready : ready[i] = ready[j]
           /\ \A i \in DOMAIN ready :
                  IF operation_def.cls = "TensorSource"
                  THEN ready[i] <=>
                           \A k \in DOMAIN operation_def.fields.tensors :
                               ready_to_run(call.graph_analyzer,
                                            operation_def.fields.tensors[k])
                  ELSE ready[i] <=>
                           \A k \in DOMAIN call.ready_values : call.ready_values[k]

\* An operation with two outputs and one input that is not ready: neither
\* output is ready.
C15_Witness ==
    /\ ReadyCalled
    /\ call.operation_def.cls # "TensorSource"
    /\ call.operation_def.num_outputs = 2
    /\ call.ready_values = <<TRUE, FALSE>>
    /\ call.result.value = <<FALSE, FALSE>>

\* The visit is of an ApplySavedModel with one input.
ApplySavedModelCalled ==
    /\ OptimizeCalled
    /\ call.operation_def.cls = "ApplySavedModel"
    /\ Len(call.input_values) = 1

\* C16: with or without a cache, the visit of the ApplySavedModel of phase 0
\* fails when the upstream view has a fine grained view and otherwise yields
\* one view: flattened is the operation applied to the upstream flattened
\* view, the fine grained view has for each dataset key of the visitor the
\* operation relabelled with the key and with dataset_key set, applied to
\* the upstream flattened view, there is no preference and the path hash is
\* the sentinel; the ApplySavedModel of a later phase gets none of this.
C16_ApplySavedModelRoot ==
    ApplySavedModelCalled =>
        LET operation_def == call.operation_def
            upstream_view == call.input_values[1]
            dataset_keys == call.visitor.dataset_keys
        IN IF operation_def.fields.phase = 0
           THEN IF Truthy(upstream_view.fine_grained_view)
                THEN call.result.tag = "raise"
                ELSE /\ call.result.tag = "return"
                     /\ Len(call.result.value.views) = 1
                     /\ LET view == call.result.value.views[1]
                        IN /\ view.flattened_view =
                                  ApplyOperation(operation_def,
                                                 <<upstream_view.flattened_view>>)
                           /\ ~IsNone(view.fine_grained_view)
                           /\ DOMAIN view.fine_grained_view.items = DOMAIN dataset_keys
                           /\ \A i \in DOMAIN dataset_keys :
                                  /\ view.fine_grained_view.items[i].key = dataset_keys[i]
                                  /\ view.fine_grained_view.items[i].value =
                                         ApplyOperation(
                                             [operation_def EXCEPT
                                                 !.fields.dataset_key = <<dataset_keys[i]>>,
                                                 !.label = Bracket(operation_def.label,
                                                                   <<dataset_keys[i]>>)],
                                             <<upstream_view.flattened_view>>)
                           /\ ~view.prefer_fine_grained_view
                           /\ view.hashed_path = Bytes(<<"APPLY_SAVEDMODEL">>)
                     /\ call.result.value.cache_output_nodes = call.visitor.cache_output_nodes
           ELSE /\ call.result #
                      Raise("ValueError: Was not expecting a fine_grained_view input for ApplySavedModel")
                /\ call.result.tag = "return" =>
                       \A i \in DOMAIN call.result.value.views :
                           LET view == call.result.value.views[i]
                           IN /\ view.hashed_path # Bytes(<<"APPLY_SAVEDMODEL">>)
                              /\ Truthy(view.fine_grained_view) =>
                                     Truthy(upstream_view.fine_grained_view)

\* The ApplySavedModel of phase 0 visited without a cache and with two
\* dataset keys: the fine grained view has two partitions.
C16_Witness ==
    /\ ApplySavedModelCalled
    /\ call.operation_def.fields.phase = 0
    /\ IsNone(call.visitor.cache_dict)
    /\ Len(call.visitor.dataset_keys) = 2
    /\ call.result.tag = "return"
    /\ Len(call.result.value.views[1].fine_grained_view.items) = 2

\* The visit of the node takes the branch of lines 277-304: the operation is
\* not the ApplySavedModel of phase 0 and is not partitionable or the
\* visitor has no cache.
TakesOtherBranch(node) ==
    /\ ~(node.operation_def.cls = "ApplySavedModel" /\ node.operation_def.fields.phase = 0)
    /\ ~(~IsNone(optimize_visitor.cache_dict) /\ node.operation_def.is_partitionable)

\* Some input view of the node prefers its fine-grained view.
SomeInputPrefers(node) ==
    \E i \in DOMAIN node.inputs :
        Cached(optimize_cache, node.inputs[i]).prefer_fine_grained_view

\* The value nodes of all partitions of all input views, in input order.
AllPartitionsOfInputs(node) ==
    Concat([i \in DOMAIN node.inputs |->
               LET view == Cached(optimize_cache, node.inputs[i])
               IN IF IsNone(view.fine_grained_view) THEN <<>>
                  ELSE DictValues(view.fine_grained_view.items)])

\* What the visit of such a node builds when it returns: the operation over
\* one Flatten of all partitions of all inputs when some input prefers its
\* fine-grained view, else over the flattened views in input order.
FlattenOrDirectWhenVisited ==
    pc \in {"traverse", "raised", "done"} =>
        \A node \in DOMAIN optimize_cache :
            TakesOtherBranch(node) =>
                LET built == ViewOf(node).flattened_view.parent_operation
                IN /\ built.operation_def = node.operation_def
                   /\ IF SomeInputPrefers(node)
                      THEN /\ Len(built.inputs) = 1
                           /\ built.inputs[1].parent_operation.operation_def.cls = "Flatten"
                           /\ built.inputs[1].parent_operation.inputs =
                                  AllPartitionsOfInputs(node)
                      ELSE built.inputs =
                               [i \in DOMAIN node.inputs |->
                                   Cached(optimize_cache, node.inputs[i]).flattened_view]

\* C17 as stated: an operation that is not partitionable, or is visited
\* without a cache, is applied to one Flatten over all partitions of all of
\* its inputs when some input view prefers its fine-grained view, and that
\* visit succeeds whatever the other input views are; otherwise it is
\* applied to the flattened views of its inputs in input order.
C17_FlattenOrDirect ==
    /\ FlattenOrDirectWhenVisited
    /\ pc = "raised" =>
           LET node == FirstUnvisited(optimize_cache, saved_model_future.parent_operation)
           IN ~(TakesOtherBranch(node) /\ SomeInputPrefers(node))

(***************************************************************************)
(* Properties of the views of single visits.                               *)
(***************************************************************************)
IsApplySavedModelRoot(operation_def) ==
    operation_def.cls = "ApplySavedModel" /\ operation_def.fields.phase = 0

\* The visit is of an operation that is handled with partitions: it is
\* partitionable and the visitor has a cache.
PartitionableCalled ==
    /\ OptimizeCalled
    /\ ~IsApplySavedModelRoot(call.operation_def)
    /\ ~IsNone(call.visitor.cache_dict)
    /\ call.operation_def.is_partitionable

\* The visit is of any other operation but the ApplySavedModel of phase 0.
OtherCalled ==
    /\ OptimizeCalled
    /\ ~IsApplySavedModelRoot(call.operation_def)
    /\ IsNone(call.visitor.cache_dict) \/ ~call.operation_def.is_partitionable

\* C18: every view of an operation that is not partitionable or is visited
\* without a cache, the ApplySavedModel of phase 0 apart, has no fine
\* grained view, no preference and no path hash; and a partitionable
\* operation whose upstream view has no fine grained view yields a view
\* without one, over the upstream flattened view, and records no cache
\* output.
C18_PartitioningCloses ==
    /\ (OtherCalled /\ call.result.tag = "return") =>
           \A i \in DOMAIN call.result.value.views :
               LET view == call.result.value.views[i]
               IN /\ IsNone(view.fine_grained_view)
                  /\ ~view.prefer_fine_grained_view
                  /\ IsNone(view.hashed_path)
    /\ (/\ PartitionableCalled
        /\ call.result.tag = "return"
        /\ ~Truthy(call.input_values[1].fine_grained_view)) =>
           /\ \A i \in DOMAIN call.result.value.views :
                  LET view == call.result.value.views[i]
                  IN /\ IsNone(view.fine_grained_view)
                     /\ ~view.prefer_fine_grained_view
                     /\ view.flattened_view =
                            ApplyOperation(call.operation_def,
                                           <<call.input_values[1].flattened_view>>)
           /\ call.result.value.cache_output_nodes = call.visitor.cache_output_nodes

\* An operation that is not partitionable was visited, with a cache, over
\* the view of the ApplySavedModel of phase 0 with its two partitions: its
\* view has none.
C18_Witness ==
    /\ OtherCalled
    /\ ~IsNone(call.visitor.cache_dict)
    /\ Len(call.input_values) = 1
    /\ Truthy(call.input_values[1].fine_grained_view)
    /\ Len(call.input_values[1].fine_grained_view.items) = 2
    /\ call.result.tag = "return"
    /\ IsNone(call.result.value.views[1].fine_grained_view)

CannotPrefer == Raise("ValueError: Cannot prefer fine_grained_view when one is not provided")

\* The descriptor passes the validation of every visit.
IsValidDescriptor(operation_def) ==
    /\ ~IsNone(operation_def.cache_coder) => operation_def.is_partitionable
    /\ (operation_def.is_partitionable \/ ~IsNone(operation_def.cache_coder)) =>
           operation_def.num_outputs = 1

\* C19: the view of a partitionable operation visited with a cache prefers
\* its fine grained view exactly when the upstream view has a fine grained
\* view and either prefers it or the operation has a cache coder, and the
\* visit never fails for preferring a view it lacks; so an operation
\* without a cache coder over a view that does not prefer yields a view
\* that does not prefer, and an operation that is not partitionable over
\* views that do not prefer is applied to their flattened views, with no
\* Flatten in between.
C19_PreferenceRule ==
    /\ (PartitionableCalled /\ Len(call.input_values) = 1) =>
           /\ call.result # CannotPrefer
           /\ call.result.tag = "return" =>
                  \A i \in DOMAIN call.result.value.views :
                      call.result.value.views[i].prefer_fine_grained_view <=>
                          /\ Truthy(call.input_values[1].fine_grained_view)
                          /\ \/ call.input_values[1].prefer_fine_grained_view
                             \/ ~IsNone(call.operation_def.cache_coder)
    /\ (/\ OtherCalled
        /\ IsValidDescriptor(call.operation_def)
        /\ \A k \in DOMAIN call.input_values :
               ~call.input_values[k].prefer_fine_grained_view) =>
           /\ call.result.tag = "return"
           /\ \A i \in DOMAIN call.result.value.views :
                  LET built == call.result.value.views[i].flattened_view.parent_operation
                  IN /\ built.operation_def = call.operation_def
                     /\ built.inputs = [k \in DOMAIN call.input_values |->
                                           call.input_values[k].flattened_view]

\* A partitionable operation without a cache coder was visited over a view
\* that prefers its fine grained view: its view prefers it too.
C19_Witness ==
    /\ PartitionableCalled
    /\ IsNone(call.operation_def.cache_coder)
    /\ Len(call.input_values) = 1
    /\ call.input_values[1].prefer_fine_grained_view
    /\ call.result.tag = "return"
    /\ call.result.value.views[1].prefer_fine_grained_view

(***************************************************************************)
(* Properties of the translation.                                          *)
(***************************************************************************)
\* The operation nodes of the user-level graph at and below a node.
RECURSIVE OperationsBelow(_)
OperationsBelow(operation_node) ==
    {operation_node}
    \cup UNION {OperationsBelow(operation_node.inputs[i].parent_operation) :
                   i \in DOMAIN operation_node.inputs}

\* The resolved sinks whose analyzer reads the operation node.
ConsumingSinks(operation_node) ==
    {i \in 1..graph.n :
        /\ Resolved(i)
        /\ operation_node \in OperationsBelow(tensor_sinks[i].value_node.parent_operation)}

\* The TensorSource nodes the translator has visited.
TranslatedSources ==
    {operation_node \in DOMAIN translate_cache :
        operation_node.operation_def.cls = "TensorSource"}

\* The name of the tensor without a trailing ":0".
StrippedName(tensor) ==
    IF tensor.index = 0 THEN tensor.base ELSE tensor.base \o <<":", NatStr(tensor.index)>>

\* C20: the translation of every TensorSource is an ExtractFromDict over
\* the ApplySavedModel of a phase p that is not later than the phase in
\* which any sink reading it is resolved; its keys are the names of the
\* source tensors without a trailing ":0", each a key of the output
\* signature of the CreateSavedModel of phase p and, once phase p is over,
\* of the accumulated signature the path hashes are derived from; also when
\* sinks resolved in different phases share the TensorSource.
C20_TranslatorConsistency ==
    pc \in {"while", "for", "traverse", "raised", "done"} =>
        \A source \in TranslatedSources :
            LET extract == translate_cache[source][1].parent_operation
                apply == extract.inputs[1].parent_operation
                create == apply.inputs[1].parent_operation
                p == apply.operation_def.fields.phase
                tensors == source.operation_def.fields.tensors
            IN /\ extract.operation_def.cls = "ExtractFromDict"
               /\ Len(extract.inputs) = 1
               /\ apply.operation_def.cls = "ApplySavedModel"
               /\ create.operation_def.cls = "CreateSavedModel"
               /\ create.operation_def.fields.output_signature = IntermediateRef(p)
               /\ ConsumingSinks(source) # {}
               /\ \A i \in ConsumingSinks(source) : p <= PhaseOf(i)
               /\ extract.operation_def.fields.keys =
                      [k \in DOMAIN tensors |-> StrippedName(tensors[k])]
               /\ \A k \in DOMAIN tensors :
                      /\ StrippedName(tensors[k]) \in DictKeys(signature_heap[IntermediateRef(p)])
                      /\ p < phase =>
                             StrippedName(tensors[k]) \in DictKeys(analyzers_input_signature)
               /\ LoopExited => p < phase

\* A TensorSource read by a sink resolved in phase 0 and by one resolved in
\* phase 1 is translated to a lookup in the ApplySavedModel of phase 0.
C20_Witness ==
    /\ pc = "done"
    /\ \E source \in TranslatedSources :
           /\ \E i, j \in ConsumingSinks(source) : PhaseOf(i) = 0 /\ PhaseOf(j) = 1
           /\ translate_cache[source][1].parent_operation.inputs[1].parent_operation
                  .operation_def.fields.phase = 0

(***************************************************************************)
(* Properties of the contract on partitionable operations.                 *)
(***************************************************************************)
\* The visit has failed: the result is an exception, which carries no view
\* and no cache output.
VisitFailed ==
    /\ call.result.tag = "raise"
    /\ DOMAIN call.result = {"tag", "exc"}

\* C21 as stated: the visit of every partitionable operation with a number
\* of inputs other than one fails with an error and yields no view and no
\* cache output.
C21_MultiInputFails_AsStated ==
    (/\ OptimizeCalled
     /\ call.operation_def.is_partitionable
     /\ Len(call.input_values) # 1) => VisitFailed

\* C21, amended: the visit of a partitionable operation with a number of
\* inputs other than one fails with an error, and yields no view and no
\* cache output, when the visitor has a cache or the operation is the
\* ApplySavedModel of phase 0; a valid descriptor then fails on unpacking
\* its inputs.  Without a cache any other such operation is applied like
\* one that is not partitionable and its visit returns views unless a
\* preferred fine grained view has to be flattened.
C21_MultiInputFails ==
    (/\ OptimizeCalled
     /\ call.operation_def.is_partitionable
     /\ Len(call.input_values) # 1) =>
        IF ~IsNone(call.visitor.cache_dict) \/ IsApplySavedModelRoot(call.operation_def)
        THEN /\ VisitFailed
             /\ IsValidDescriptor(call.operation_def) =>
                    call.result = Raise("ValueError: unpack")
        ELSE (/\ IsValidDescriptor(call.operation_def)
              /\ \A k \in DOMAIN call.input_values :
                     ~call.input_values[k].prefer_fine_grained_view) =>
                 /\ call.result.tag = "return"
                 /\ Len(call.result.value.views) = call.operation_def.num_outputs
                 /\ call.result.value.cache_output_nodes = call.visitor.cache_output_nodes

\* A valid partitionable operation was visited with a cache and two inputs,
\* and the visit failed on unpacking them.
C21_Witness ==
    /\ PartitionableCalled
    /\ IsValidDescriptor(call.operation_def)
    /\ Len(call.input_values) = 2
    /\ call.result = Raise("ValueError: unpack")

(***************************************************************************)
(* Properties of the optimizer without a cache.                            *)
(***************************************************************************)
\* The operation is one only the optimizer creates: a Flatten, an encode or
\* a decode of a cache entry, or an ApplySavedModel of one dataset key.
IsOptimizerMade(operation_def) ==
    \/ operation_def.cls \in {"Flatten", "EncodeCache", "DecodeCache"}
    \/ operation_def.cls = "ApplySavedModel" /\ operation_def.fields.dataset_key # <<>>

\* C22: with cache_dict None the traversal of the optimizer does not fail,
\* no view prefers its fine grained view, the flattened view of every node
\* is the node itself, and the plan returned is the plan that was passed
\* in, with no operation below it that only the optimizer creates, and
\* with no mapping; whatever the dataset keys.
C22_IdentityWithoutCache ==
    (IsNone(cache_dict) /\ pc \in {"traverse", "raised", "done"}) =>
        /\ pc # "raised"
        /\ \A node \in DOMAIN optimize_cache :
               \A i \in DOMAIN optimize_cache[node] :
                   /\ ~optimize_cache[node][i].prefer_fine_grained_view
                   /\ optimize_cache[node][i].flattened_view = Outputs(node)[i]
        /\ pc = "done" =>
               LET returned == result[Len(result)]
               IN /\ returned.optimized_saved_model_future = saved_model_future
                  /\ \A node \in OperationsBelow(
                                     returned.optimized_saved_model_future.parent_operation) :
                         ~IsOptimizerMade(node.operation_def)
                  /\ IsNone(returned.output_cache_value_nodes)

\* A build without a cache and with two dataset keys has returned: the view
\* of the ApplySavedModel of phase 0 has two partitions, and the plan has a
\* cacheable operation that would be applied to them with a cache.
C22_Witness ==
    /\ pc = "done"
    /\ IsNone(cache_dict)
    /\ \E node \in DOMAIN optimize_cache :
           /\ IsApplySavedModelRoot(node.operation_def)
           /\ Truthy(optimize_cache[node][1].fine_grained_view)
           /\ Len(optimize_cache[node][1].fine_grained_view.items) = 2
    /\ \E node \in DOMAIN optimize_cache : ~IsNone(node.operation_def.cache_coder)

(***************************************************************************)
(* Properties of the hashed paths of the views.                            *)
(***************************************************************************)
\* The node was visited by _visit_partitionable_operation.
TookPartitionableBranch(node) ==
    /\ ~IsApplySavedModelRoot(node.operation_def)
    /\ ~IsNone(optimize_visitor.cache_dict)
    /\ node.operation_def.is_partitionable

\* A cache entry key was derived at the visit of the node: its operation
\* was applied to the partitions of its upstream view.
KeyDerived(node) ==
    /\ TookPartitionableBranch(node)
    /\ Truthy(UpstreamView(node).fine_grained_view)

\* A path the hash of the node is made of is unknown: that of its upstream
\* view or that of the tensor of a key it looks up.
SomePathUnknown(node) ==
    \/ IsNone(UpstreamView(node).hashed_path)
    \/ /\ node.operation_def.cls = "ExtractFromDict"
       /\ \E k \in DOMAIN node.operation_def.fields.keys :
              IsNone(DictGet(optimize_visitor.tensor_keys_to_paths,
                             node.operation_def.fields.keys[k]))

\* C23: no visit fails on a hashed path that is None; every view with a
\* fine grained view has a hashed path; an unknown path of the upstream
\* view or of a looked up tensor makes the hashed path of the node None,
\* and such a node has no fine grained view; where a key is derived, the
\* node of every partition p is a DecodeCache of (p, key) or the operation
\* applied to partition p, recorded under (p, key) when it is cacheable,
\* with one key, that of the label and the hashed path, for all p.
C23_HashedPathKnown ==
    pc \in {"traverse", "raised", "done"} =>
        /\ error # Raise("TypeError")
        /\ \A view \in AllViews :
               Truthy(view.fine_grained_view) => ~IsNone(view.hashed_path)
        /\ \A node \in DOMAIN optimize_cache :
               (TookPartitionableBranch(node) /\ SomePathUnknown(node)) =>
                   /\ IsNone(ViewOf(node).hashed_path)
                   /\ ~Truthy(ViewOf(node).fine_grained_view)
        /\ \A node \in DOMAIN optimize_cache :
               KeyDerived(node) =>
                   /\ ~IsNone(ViewOf(node).hashed_path)
                   /\ \A q \in Range(optimize_visitor.dataset_keys) :
                          LET made == DictGet(ViewOf(node).fine_grained_view.items, q)
                                          .parent_operation
                          IN IF made.operation_def.cls = "DecodeCache"
                             THEN /\ made.operation_def.fields.dataset_key = q
                                  /\ made.operation_def.fields.cache_key = EntryKeyOf(node)
                                  /\ CacheHit(cache_dict, q, EntryKeyOf(node))
                             ELSE /\ made = AppliedToPartition(node, q).parent_operation
                                  /\ ~IsNone(node.operation_def.cache_coder) =>
                                         DictHas(optimize_visitor.cache_output_nodes,
                                                 CacheOutputKey(q, EntryKeyOf(node)))

\* A build with a cache and two dataset keys has returned a plan in which a
\* cacheable operation of phase 0 has a key, with one partition read from
\* the cache and one computed, and a partitionable operation of a later
\* phase has an unknown hashed path and no fine grained view.
C23_Witness ==
    /\ pc = "done"
    /\ Len(optimize_visitor.dataset_keys) = 2
    /\ \E node \in CacheableNodes :
           /\ KeyDerived(node)
           /\ \E q, r \in Range(optimize_visitor.dataset_keys) :
                  /\ CacheHit(cache_dict, q, EntryKeyOf(node))
                  /\ DictHas(optimize_visitor.cache_output_nodes,
                             CacheOutputKey(r, EntryKeyOf(node)))
    /\ \E node \in DOMAIN optimize_cache :
           /\ TookPartitionableBranch(node)
           /\ SomePathUnknown(node)
           /\ IsNone(ViewOf(node).hashed_path)

====
